---- MODULE Spec2Model ----
(***************************************************************************)
(* CommitmentChain: the commitment registry contract, as a state machine.  *)
(* One action per external call (a transaction).  A transaction either     *)
(* commits all its storage writes and its event log, or reverts with the   *)
(* reason of the first failing require and leaves storage as it was.       *)
(* Next to the registry, the client: the wallet provider (useWallet.tsx)   *)
(* and the contract binding (useContract.ts), one action per callback or   *)
(* per await of an asynchronous call.                                      *)
(***************************************************************************)
EXTENDS Integers, Sequences, FiniteSets, TLC

\* ------------------------------------------------------------------------
\* Bounds of the exploration
\* ------------------------------------------------------------------------
MaxCommitments == 1        \* commitments created under Spec (every argument explored)
MultiCommitments == 2      \* commitments created under SpecMulti (few arguments explored)
MaxWitnesses == 2          \* longest _witnesses argument explored
MaxTime == 1               \* block timestamps explored: 1..MaxTime
MaxGrants == 1             \* role grants explored on top of initialize's
MaxUpdates == 1            \* updateAccountInfo calls of the wallet provider in flight at once

\* ------------------------------------------------------------------------
\* Identities, roles, inputs
\* ------------------------------------------------------------------------
ZeroAddress == 0
Admin == 1
Addrs == {1, 2, 3}
AddrArgs == Addrs \cup {ZeroAddress}
GrantAccounts == {2}       \* the accounts roles are granted to and revoked from
RevokeAccounts == {1, 2}   \* the accounts that revoke and renounce roles (renounceRole, by
                           \* which the admin may give up its role, is explored under
                           \* SpecUpgrade and SpecSign)
FirstImplementation == 1   \* the logic contract the proxy is deployed with
Implementations == {1, 2}  \* logic contracts: the first one and a redeployment of it

DEFAULT_ADMIN_ROLE == "DEFAULT_ADMIN_ROLE"
POLICE_ROLE == "POLICE_ROLE"
LAWYER_ROLE == "LAWYER_ROLE"
VERIFIER_ROLE == "VERIFIER_ROLE"
EMERGENCY_ROLE == "EMERGENCY_ROLE"
Roles == {DEFAULT_ADMIN_ROLE, POLICE_ROLE, LAWYER_ROLE, VERIFIER_ROLE, EMERGENCY_ROLE}

FileHashes == {"", "0xab"}
Timestamps == 1..MaxTime
WitnessLists == UNION {[1..n -> AddrArgs] : n \in 0..MaxWitnesses}
IdArgs == 0..MaxCommitments
Ids == 0..(MaxCommitments + MultiCommitments)

\* Arguments explored under SpecMulti.
MultiSenders == {1}
MultiFileHashes == {"", "0xab"}
MultiSigners == {ZeroAddress, 1, 2}
MultiWitnessLists == {<<>>, <<3>>, <<2>>, <<ZeroAddress>>, <<3, 3>>}
MultiRoles == {EMERGENCY_ROLE}
MultiIdArgs == 0..MultiCommitments

\* Creations explored under SpecSign: account 1 names account 2 as signer.
SignSenders == {1}
SignSigners == {2}
SignWitnessLists == {<<>>, <<3>>, <<1, 3>>, <<3, 3>>}

\* Outcomes of a call: OK, or the reason of the revert.
OK == "ok"
ErrEnforcedPause == "EnforcedPause"
ErrExpectedPause == "ExpectedPause"
ErrUnauthorized == "AccessControlUnauthorizedAccount"
ErrBadConfirmation == "AccessControlBadConfirmation"
ErrEmptyHash == "CommitmentChain: File hash cannot be empty"
ErrInvalidSigner == "CommitmentChain: Invalid signer address"
ErrSignerIsInitiator == "CommitmentChain: Signer cannot be initiator"
ErrInvalidWitness == "CommitmentChain: Invalid witness address"
ErrWitnessIsSigner == "CommitmentChain: Witness cannot be signer"
ErrDuplicateWitness == "CommitmentChain: Duplicate witness address"
ErrWitnessNotLawyer == "CommitmentChain: Witness must have LAWYER_ROLE"
ErrFrozen == "CommitmentChain: Commitment is frozen"
ErrInvalidId == "CommitmentChain: Invalid commitment ID"
ErrNotSigner == "CommitmentChain: Not the designated signer"
ErrAlreadySigned == "CommitmentChain: Already signed"
ErrInitiatorFirst == "CommitmentChain: Initiator must sign first"
ErrNotWitness == "CommitmentChain: Not a designated witness"
ErrAlreadyFrozen == "CommitmentChain: Already frozen"
ErrNotFrozen == "CommitmentChain: Not frozen"
ErrAlreadyVerified == "CommitmentChain: Already verified"
ErrNotCompleted == "CommitmentChain: Not completed yet"

\* ------------------------------------------------------------------------
\* State
\* ------------------------------------------------------------------------
VARIABLES
    commitmentIdCounter,   \* _commitmentIdCounter
    commitments,           \* id -> Commitment, for the ids written so far
    witnessSigned,         \* id -> address -> BOOLEAN
    paused,                \* Pausable's flag
    roles,                 \* role -> set of holders (AccessControl)
    logs,                  \* events emitted by the last transaction
    implementation,        \* the proxy's implementation slot (ERC-1967)
    lastCall,              \* [op, result] of the last transaction
    completedCount,        \* id -> CommitmentCompleted events emitted so far
    verifiedCount,         \* id -> CommitmentVerified events emitted so far
    createdCount,          \* CommitmentCreated events emitted so far
    accounts,              \* the account window.ethereum exposes to the page (NoAddress: none)
    state,                 \* WalletProvider's state: [isConnected, address]
    provider,              \* WalletProvider's provider (NoProvider: null)
    connecting,            \* connect() calls waiting for eth_requestAccounts
    updating,              \* the updateAccountInfo calls under way: for each the address
                           \* its getAddress gave (NoAddress: getSigner is still awaited)
    txState,               \* useContract's txState: [isPending, hash, error]
    call                   \* the mutating call of the binding under way, and its position

registry == <<commitmentIdCounter, commitments, witnessSigned, paused, roles,
              logs, implementation, lastCall, completedCount, verifiedCount,
              createdCount>>

\* The wallet provider of the client (useWallet.tsx).
wallet == <<accounts, state, provider, connecting, updating>>

\* The client binding (useContract.ts).
binding == <<txState, call>>

vars == <<registry, wallet, binding>>

\* Storage of the contract (what a revert restores).
storage == <<commitmentIdCounter, commitments, witnessSigned, paused, roles,
             implementation>>

\* A storage slot never written reads as zero.
ZeroCommitment ==
    [id |-> 0, initiator |-> ZeroAddress, signer |-> ZeroAddress,
     witnesses |-> <<>>, fileHash |-> "", createdAt |-> 0,
     initiatorSigned |-> FALSE, signerSigned |-> FALSE,
     witnessSignedCount |-> 0, isCompleted |-> FALSE,
     isFrozen |-> FALSE, isVerified |-> FALSE]

NoWitnessSigned == [a \in Addrs |-> FALSE]

Commitment(id) ==
    IF id \in DOMAIN commitments THEN commitments[id] ELSE ZeroCommitment

WitnessSignedOf(ws, id) ==
    IF id \in DOMAIN ws THEN ws[id] ELSE NoWitnessSigned

HasWitnessSignedIn(ws, id, a) ==
    a \in Addrs /\ WitnessSignedOf(ws, id)[a]

\* Faulty variant: a write to one mapping slot lands in every slot.
Put_EverySlot(f, k, v) == [x \in (DOMAIN f) \cup {k} |-> v]

Put(f, k, v) == [x \in (DOMAIN f) \cup {k} |-> IF x = k THEN v ELSE f[x]]

hasRole(role, account) == account \in roles[role]

Event(name, id, account, role) ==
    [event |-> name, id |-> id, account |-> account, role |-> role]

\* ------------------------------------------------------------------------
\* Transactions: each handler maps the current state and its arguments to
\* the outcome [result, returned, counter, commitments, witnessSigned, paused,
\* roles, implementation, logs].
\* ------------------------------------------------------------------------
Current ==
    [result |-> OK, returned |-> 0,
     counter |-> commitmentIdCounter, commitments |-> commitments,
     witnessSigned |-> witnessSigned, paused |-> paused, roles |-> roles,
     implementation |-> implementation, logs |-> <<>>]

Reverted(reason) == [Current EXCEPT !.result = reason]

\* Faulty variant: the modifier lets frozen commitments through.
notFrozen_Always(id) == TRUE

notFrozen(id) == ~Commitment(id).isFrozen

\* Faulty variant: the lower bound of the id check is missing.
validCommitmentId_AcceptsZero(id) == id <= commitmentIdCounter

validCommitmentId(id) == id > 0 /\ id <= commitmentIdCounter

\* Faulty variant: the loop's fall-through answers true.
_isWitness_AnyAddress(id, a) == TRUE

_isWitness(id, a) ==
    \E i \in 1..Len(Commitment(id).witnesses) : Commitment(id).witnesses[i] = a

\* Faulty variant: the witness count is left out of the condition.
_checkCompletion_IgnoresWitnesses(c) ==
    IF c.initiatorSigned /\ c.signerSigned
    THEN [c |-> [c EXCEPT !.isCompleted = TRUE],
          logs |-> <<Event("CommitmentCompleted", c.id, ZeroAddress, "")>>]
    ELSE [c |-> c, logs |-> <<>>]

\* Faulty variant: the signer's signature is left out of the condition.
_checkCompletion_IgnoresSigner(c) ==
    IF c.initiatorSigned /\ c.witnessSignedCount = Len(c.witnesses)
    THEN [c |-> [c EXCEPT !.isCompleted = TRUE],
          logs |-> <<Event("CommitmentCompleted", c.id, ZeroAddress, "")>>]
    ELSE [c |-> c, logs |-> <<>>]

\* The commitment after the completion check, and the events the check emits.
_checkCompletion(c) ==
    IF c.initiatorSigned /\ c.signerSigned
       /\ c.witnessSignedCount = Len(c.witnesses)
    THEN [c |-> [c EXCEPT !.isCompleted = TRUE],
          logs |-> <<Event("CommitmentCompleted", c.id, ZeroAddress, "")>>]
    ELSE [c |-> c, logs |-> <<>>]

\* Faulty variant: the inner loop looking for duplicates is missing.
RECURSIVE witnessesRevert_NoDuplicateCheck(_, _, _, _)
witnessesRevert_NoDuplicateCheck(sender, signer, witnesses, i) ==
    IF i > Len(witnesses) THEN OK
    ELSE IF witnesses[i] = ZeroAddress THEN ErrInvalidWitness
    ELSE IF witnesses[i] = signer THEN ErrWitnessIsSigner
    ELSE witnessesRevert_NoDuplicateCheck(sender, signer, witnesses, i + 1)

\* The first failing require of createCommitment's validation, in code order.
RECURSIVE witnessesRevert(_, _, _, _)
witnessesRevert(sender, signer, witnesses, i) ==
    IF i > Len(witnesses) THEN OK
    ELSE IF witnesses[i] = ZeroAddress THEN ErrInvalidWitness
    ELSE IF witnesses[i] = signer THEN ErrWitnessIsSigner
    ELSE IF \E j \in (i + 1)..Len(witnesses) : witnesses[i] = witnesses[j]
         THEN ErrDuplicateWitness
    ELSE witnessesRevert(sender, signer, witnesses, i + 1)

createCommitmentRevert(sender, fileHash, signer, witnesses) ==
    IF ~(Len(fileHash) > 0) THEN ErrEmptyHash
    ELSE IF signer = ZeroAddress THEN ErrInvalidSigner
    ELSE IF signer = sender THEN ErrSignerIsInitiator
    ELSE witnessesRevert(sender, signer, witnesses, 1)

\* Faulty variant: the initiator's signature is not recorded at creation.
createCommitment_InitiatorUnsigned(sender, fileHash, signer, witnesses, timestamp) ==
    LET r == createCommitmentRevert(sender, fileHash, signer, witnesses)
        newCommitmentId == commitmentIdCounter + 1
        c == [id |-> newCommitmentId, initiator |-> sender, signer |-> signer,
              witnesses |-> witnesses, fileHash |-> fileHash,
              createdAt |-> timestamp,
              initiatorSigned |-> FALSE, signerSigned |-> FALSE,
              witnessSignedCount |-> 0, isCompleted |-> FALSE,
              isFrozen |-> FALSE, isVerified |-> FALSE]
    IN  IF r # OK THEN Reverted(r)
        ELSE [Current EXCEPT
                !.counter = newCommitmentId,
                !.commitments = Put(commitments, newCommitmentId, c),
                !.logs = <<Event("CommitmentCreated", newCommitmentId, sender, "")>>]

\* Faulty variant: the id is allocated before the validation, and a failed
\* validation returns early instead of reverting.
createCommitment_AllocatesBeforeChecks(sender, fileHash, signer, witnesses, timestamp) ==
    LET r == createCommitmentRevert(sender, fileHash, signer, witnesses)
        newCommitmentId == commitmentIdCounter + 1
        c == [id |-> newCommitmentId, initiator |-> sender, signer |-> signer,
              witnesses |-> witnesses, fileHash |-> fileHash,
              createdAt |-> timestamp,
              initiatorSigned |-> TRUE, signerSigned |-> FALSE,
              witnessSignedCount |-> 0, isCompleted |-> FALSE,
              isFrozen |-> FALSE, isVerified |-> FALSE]
    IN  IF r # OK THEN [Reverted(r) EXCEPT !.counter = newCommitmentId]
        ELSE [Current EXCEPT
                !.counter = newCommitmentId,
                !.commitments = Put(commitments, newCommitmentId, c),
                !.logs = <<Event("CommitmentCreated", newCommitmentId, sender, ""),
                           Event("CommitmentSigned", newCommitmentId, sender, "initiator")>>]

\* Faulty variant: the id is read before the counter is incremented.
createCommitment_PostIncrement(sender, fileHash, signer, witnesses, timestamp) ==
    LET r == createCommitmentRevert(sender, fileHash, signer, witnesses)
        newCommitmentId == commitmentIdCounter
        c == [id |-> newCommitmentId, initiator |-> sender, signer |-> signer,
              witnesses |-> witnesses, fileHash |-> fileHash,
              createdAt |-> timestamp,
              initiatorSigned |-> TRUE, signerSigned |-> FALSE,
              witnessSignedCount |-> 0, isCompleted |-> FALSE,
              isFrozen |-> FALSE, isVerified |-> FALSE]
    IN  IF r # OK THEN Reverted(r)
        ELSE [Current EXCEPT
                !.returned = newCommitmentId,
                !.counter = commitmentIdCounter + 1,
                !.commitments = Put(commitments, newCommitmentId, c),
                !.logs = <<Event("CommitmentCreated", newCommitmentId, sender, ""),
                           Event("CommitmentSigned", newCommitmentId, sender, "initiator")>>]

createCommitment(sender, fileHash, signer, witnesses, timestamp) ==
    LET r == createCommitmentRevert(sender, fileHash, signer, witnesses)
        newCommitmentId == commitmentIdCounter + 1
        c == [id |-> newCommitmentId, initiator |-> sender, signer |-> signer,
              witnesses |-> witnesses, fileHash |-> fileHash,
              createdAt |-> timestamp,
              initiatorSigned |-> TRUE, signerSigned |-> FALSE,
              witnessSignedCount |-> 0, isCompleted |-> FALSE,
              isFrozen |-> FALSE, isVerified |-> FALSE]
        done == _checkCompletion(c)
    IN  IF r # OK THEN Reverted(r)
        ELSE [Current EXCEPT
                !.returned = newCommitmentId,
                !.counter = newCommitmentId,
                !.commitments = Put(commitments, newCommitmentId, done.c),
                !.logs = <<Event("CommitmentCreated", newCommitmentId, sender, ""),
                           Event("CommitmentSigned", newCommitmentId, sender, "initiator")>>
                         \o done.logs]

\* Faulty variant: the "Already signed" require is missing.
signAsSignerRevert_NoAlreadySigned(sender, id) ==
    IF paused THEN ErrEnforcedPause
    ELSE IF ~validCommitmentId(id) THEN ErrInvalidId
    ELSE IF ~notFrozen(id) THEN ErrFrozen
    ELSE IF sender # Commitment(id).signer THEN ErrNotSigner
    ELSE IF ~Commitment(id).initiatorSigned THEN ErrInitiatorFirst
    ELSE OK

\* Faulty variant: the whenNotPaused modifier is missing.
signAsSignerRevert_NoPauseCheck(sender, id) ==
    IF ~validCommitmentId(id) THEN ErrInvalidId
    ELSE IF ~notFrozen(id) THEN ErrFrozen
    ELSE IF sender # Commitment(id).signer THEN ErrNotSigner
    ELSE IF Commitment(id).signerSigned THEN ErrAlreadySigned
    ELSE IF ~Commitment(id).initiatorSigned THEN ErrInitiatorFirst
    ELSE OK

\* Faulty variant: the "Not the designated signer" require is missing.
signAsSignerRevert_NoSignerCheck(sender, id) ==
    IF paused THEN ErrEnforcedPause
    ELSE IF ~validCommitmentId(id) THEN ErrInvalidId
    ELSE IF ~notFrozen(id) THEN ErrFrozen
    ELSE IF Commitment(id).signerSigned THEN ErrAlreadySigned
    ELSE IF ~Commitment(id).initiatorSigned THEN ErrInitiatorFirst
    ELSE OK

\* Faulty variant: the signer is admitted only after every witness has signed.
signAsSignerRevert_WitnessesFirst(sender, id) ==
    IF paused THEN ErrEnforcedPause
    ELSE IF ~validCommitmentId(id) THEN ErrInvalidId
    ELSE IF ~notFrozen(id) THEN ErrFrozen
    ELSE IF sender # Commitment(id).signer THEN ErrNotSigner
    ELSE IF Commitment(id).signerSigned THEN ErrAlreadySigned
    ELSE IF ~Commitment(id).initiatorSigned THEN ErrInitiatorFirst
    ELSE IF Commitment(id).witnessSignedCount # Len(Commitment(id).witnesses)
         THEN ErrInitiatorFirst
    ELSE OK

signAsSignerRevert(sender, id) ==
    IF paused THEN ErrEnforcedPause
    ELSE IF ~validCommitmentId(id) THEN ErrInvalidId
    ELSE IF ~notFrozen(id) THEN ErrFrozen
    ELSE IF sender # Commitment(id).signer THEN ErrNotSigner
    ELSE IF Commitment(id).signerSigned THEN ErrAlreadySigned
    ELSE IF ~Commitment(id).initiatorSigned THEN ErrInitiatorFirst
    ELSE OK

signAsSigner(sender, id) ==
    LET r == signAsSignerRevert(sender, id)
        done == _checkCompletion([Commitment(id) EXCEPT !.signerSigned = TRUE])
    IN  IF r # OK THEN Reverted(r)
        ELSE [Current EXCEPT
                !.commitments = Put(commitments, id, done.c),
                !.logs = <<Event("CommitmentSigned", id, sender, "signer")>>
                         \o done.logs]

\* Faulty variant: the "Already signed" require is missing.
signAsWitnessRevert_NoAlreadySigned(sender, id) ==
    IF ~validCommitmentId(id) THEN ErrInvalidId
    ELSE IF ~notFrozen(id) THEN ErrFrozen
    ELSE IF ~Commitment(id).initiatorSigned THEN ErrInitiatorFirst
    ELSE IF ~_isWitness(id, sender) THEN ErrNotWitness
    ELSE OK

\* Faulty variant: the "Not a designated witness" require is missing.
signAsWitnessRevert_NoWitnessCheck(sender, id) ==
    IF ~validCommitmentId(id) THEN ErrInvalidId
    ELSE IF ~notFrozen(id) THEN ErrFrozen
    ELSE IF ~Commitment(id).initiatorSigned THEN ErrInitiatorFirst
    ELSE IF HasWitnessSignedIn(witnessSigned, id, sender) THEN ErrAlreadySigned
    ELSE OK

\* Faulty variant: witnesses are admitted only after the signer has signed.
signAsWitnessRevert_SignerFirst(sender, id) ==
    IF ~validCommitmentId(id) THEN ErrInvalidId
    ELSE IF ~notFrozen(id) THEN ErrFrozen
    ELSE IF ~Commitment(id).initiatorSigned THEN ErrInitiatorFirst
    ELSE IF ~Commitment(id).signerSigned THEN ErrInitiatorFirst
    ELSE IF ~_isWitness(id, sender) THEN ErrNotWitness
    ELSE IF HasWitnessSignedIn(witnessSigned, id, sender) THEN ErrAlreadySigned
    ELSE OK

signAsWitnessRevert(sender, id) ==
    IF ~validCommitmentId(id) THEN ErrInvalidId
    ELSE IF ~notFrozen(id) THEN ErrFrozen
    ELSE IF ~Commitment(id).initiatorSigned THEN ErrInitiatorFirst
    ELSE IF ~_isWitness(id, sender) THEN ErrNotWitness
    ELSE IF HasWitnessSignedIn(witnessSigned, id, sender) THEN ErrAlreadySigned
    ELSE OK

\* Faulty variant: the witness's flag is set but the count is not raised.
signAsWitness_CountNotRaised(sender, id) ==
    LET r == signAsWitnessRevert(sender, id)
        done == _checkCompletion(Commitment(id))
    IN  IF r # OK THEN Reverted(r)
        ELSE [Current EXCEPT
                !.witnessSigned =
                    Put(witnessSigned, id,
                        [WitnessSignedOf(witnessSigned, id) EXCEPT ![sender] = TRUE]),
                !.commitments = Put(commitments, id, done.c),
                !.logs = <<Event("CommitmentSigned", id, sender, "witness")>>
                         \o done.logs]

signAsWitness(sender, id) ==
    LET r == signAsWitnessRevert(sender, id)
        c == Commitment(id)
        done == _checkCompletion(
                    [c EXCEPT !.witnessSignedCount = c.witnessSignedCount + 1])
    IN  IF r # OK THEN Reverted(r)
        ELSE [Current EXCEPT
                !.witnessSigned =
                    Put(witnessSigned, id,
                        [WitnessSignedOf(witnessSigned, id) EXCEPT ![sender] = TRUE]),
                !.commitments = Put(commitments, id, done.c),
                !.logs = <<Event("CommitmentSigned", id, sender, "witness")>>
                         \o done.logs]

\* Faulty variant: freezing also withdraws the completion.
freezeCommitment_ClearsCompleted(sender, id) ==
    IF ~validCommitmentId(id) THEN Reverted(ErrInvalidId)
    ELSE IF Commitment(id).isFrozen THEN Reverted(ErrAlreadyFrozen)
    ELSE [Current EXCEPT
            !.commitments = Put(commitments, id,
                [Commitment(id) EXCEPT !.isFrozen = TRUE, !.isCompleted = FALSE]),
            !.logs = <<Event("CommitmentFrozen", id, sender, "")>>]

\* Faulty variant: freezing also blanks the stored fingerprint.
freezeCommitment_ClearsFileHash(sender, id) ==
    IF ~validCommitmentId(id) THEN Reverted(ErrInvalidId)
    ELSE IF Commitment(id).isFrozen THEN Reverted(ErrAlreadyFrozen)
    ELSE [Current EXCEPT
            !.commitments = Put(commitments, id,
                [Commitment(id) EXCEPT !.isFrozen = TRUE, !.fileHash = ""]),
            !.logs = <<Event("CommitmentFrozen", id, sender, "")>>]

freezeCommitment(sender, id) ==
    IF ~validCommitmentId(id) THEN Reverted(ErrInvalidId)
    ELSE IF Commitment(id).isFrozen THEN Reverted(ErrAlreadyFrozen)
    ELSE [Current EXCEPT
            !.commitments = Put(commitments, id, [Commitment(id) EXCEPT !.isFrozen = TRUE]),
            !.logs = <<Event("CommitmentFrozen", id, sender, "")>>]

\* Faulty variant: unfreezing reopens the commitment for the signer.
unfreezeCommitment_ResetsSigner(sender, id) ==
    IF ~validCommitmentId(id) THEN Reverted(ErrInvalidId)
    ELSE IF ~Commitment(id).isFrozen THEN Reverted(ErrNotFrozen)
    ELSE [Current EXCEPT
            !.commitments = Put(commitments, id,
                [Commitment(id) EXCEPT !.isFrozen = FALSE, !.signerSigned = FALSE]),
            !.logs = <<Event("CommitmentUnfrozen", id, sender, "")>>]

unfreezeCommitment(sender, id) ==
    IF ~validCommitmentId(id) THEN Reverted(ErrInvalidId)
    ELSE IF ~Commitment(id).isFrozen THEN Reverted(ErrNotFrozen)
    ELSE [Current EXCEPT
            !.commitments = Put(commitments, id, [Commitment(id) EXCEPT !.isFrozen = FALSE]),
            !.logs = <<Event("CommitmentUnfrozen", id, sender, "")>>]

\* Faulty variant: verification carries the modifiers of the signing calls.
verifyCommitment_GatedLikeSigning(sender, id) ==
    IF paused THEN Reverted(ErrEnforcedPause)
    ELSE IF ~validCommitmentId(id) THEN Reverted(ErrInvalidId)
    ELSE IF ~notFrozen(id) THEN Reverted(ErrFrozen)
    ELSE IF Commitment(id).isVerified THEN Reverted(ErrAlreadyVerified)
    ELSE IF ~Commitment(id).isCompleted THEN Reverted(ErrNotCompleted)
    ELSE [Current EXCEPT
            !.commitments = Put(commitments, id, [Commitment(id) EXCEPT !.isVerified = TRUE]),
            !.logs = <<Event("CommitmentVerified", id, sender, "")>>]

\* Faulty variant: the "Not completed yet" require is missing.
verifyCommitment_NoCompletedCheck(sender, id) ==
    IF ~validCommitmentId(id) THEN Reverted(ErrInvalidId)
    ELSE IF Commitment(id).isVerified THEN Reverted(ErrAlreadyVerified)
    ELSE [Current EXCEPT
            !.commitments = Put(commitments, id, [Commitment(id) EXCEPT !.isVerified = TRUE]),
            !.logs = <<Event("CommitmentVerified", id, sender, "")>>]

verifyCommitment(sender, id) ==
    IF ~validCommitmentId(id) THEN Reverted(ErrInvalidId)
    ELSE IF Commitment(id).isVerified THEN Reverted(ErrAlreadyVerified)
    ELSE IF ~Commitment(id).isCompleted THEN Reverted(ErrNotCompleted)
    ELSE [Current EXCEPT
            !.commitments = Put(commitments, id, [Commitment(id) EXCEPT !.isVerified = TRUE]),
            !.logs = <<Event("CommitmentVerified", id, sender, "")>>]

pause(sender) ==
    IF ~hasRole(EMERGENCY_ROLE, sender) THEN Reverted(ErrUnauthorized)
    ELSE IF paused THEN Reverted(ErrEnforcedPause)
    ELSE [Current EXCEPT !.paused = TRUE,
                         !.logs = <<Event("Paused", 0, sender, "")>>]

\* Faulty variant: unpause is gated by the role that gates pause.
unpause_ByEmergency(sender) ==
    IF ~hasRole(EMERGENCY_ROLE, sender) THEN Reverted(ErrUnauthorized)
    ELSE IF ~paused THEN Reverted(ErrExpectedPause)
    ELSE [Current EXCEPT !.paused = FALSE,
                         !.logs = <<Event("Unpaused", 0, sender, "")>>]

unpause(sender) ==
    IF ~hasRole(DEFAULT_ADMIN_ROLE, sender) THEN Reverted(ErrUnauthorized)
    ELSE IF ~paused THEN Reverted(ErrExpectedPause)
    ELSE [Current EXCEPT !.paused = FALSE,
                         !.logs = <<Event("Unpaused", 0, sender, "")>>]

grantRole(sender, role, account) ==
    IF ~hasRole(DEFAULT_ADMIN_ROLE, sender) THEN Reverted(ErrUnauthorized)
    ELSE IF hasRole(role, account) THEN Current
    ELSE [Current EXCEPT !.roles = [roles EXCEPT ![role] = @ \cup {account}],
                         !.logs = <<Event("RoleGranted", 0, account, role)>>]

\* revokeRole of AccessControl: the admin of the role (DEFAULT_ADMIN_ROLE for
\* every role) removes a holder; revoking a role not held changes nothing.
revokeRole(sender, role, account) ==
    IF ~hasRole(DEFAULT_ADMIN_ROLE, sender) THEN Reverted(ErrUnauthorized)
    ELSE IF ~hasRole(role, account) THEN Current
    ELSE [Current EXCEPT !.roles = [roles EXCEPT ![role] = @ \ {account}],
                         !.logs = <<Event("RoleRevoked", 0, account, role)>>]

\* renounceRole of AccessControl: a holder gives up its own role.
renounceRole(sender, role, callerConfirmation) ==
    IF callerConfirmation # sender THEN Reverted(ErrBadConfirmation)
    ELSE IF ~hasRole(role, sender) THEN Current
    ELSE [Current EXCEPT !.roles = [roles EXCEPT ![role] = @ \ {sender}],
                         !.logs = <<Event("RoleRevoked", 0, sender, role)>>]

\* View functions: the outcome carries the value returned.
getCommitment(id) ==
    IF ~validCommitmentId(id) THEN Reverted(ErrInvalidId)
    ELSE [Current EXCEPT !.returned = Commitment(id)]

hasWitnessSignedView(id, witness) ==
    IF ~validCommitmentId(id) THEN Reverted(ErrInvalidId)
    ELSE [Current EXCEPT !.returned = HasWitnessSignedIn(witnessSigned, id, witness)]

\* Faulty variant: the witness list is consulted before the initiator.
getRole_WitnessFirst(id, address) ==
    IF ~validCommitmentId(id) THEN Reverted(ErrInvalidId)
    ELSE [Current EXCEPT !.returned =
            IF _isWitness(id, address) THEN "witness"
            ELSE IF address = Commitment(id).initiator THEN "initiator"
            ELSE IF address = Commitment(id).signer THEN "signer"
            ELSE "none"]

getRole(id, address) ==
    IF ~validCommitmentId(id) THEN Reverted(ErrInvalidId)
    ELSE [Current EXCEPT !.returned =
            IF address = Commitment(id).initiator THEN "initiator"
            ELSE IF address = Commitment(id).signer THEN "signer"
            ELSE IF _isWitness(id, address) THEN "witness"
            ELSE "none"]

getWitnessCount(id) ==
    IF ~validCommitmentId(id) THEN Reverted(ErrInvalidId)
    ELSE [Current EXCEPT !.returned = Len(Commitment(id).witnesses)]

\* The upgrade authorization hook: it emits ContractUpgraded and checks
\* nothing about the caller.
_authorizeUpgrade(sender, newImplementation) ==
    [Current EXCEPT
        !.logs = <<Event("ContractUpgraded", newImplementation, ZeroAddress, "")>>]

\* UUPS upgrade through the proxy: the hook, then the implementation slot.
upgradeToAndCall(sender, newImplementation) ==
    LET auth == _authorizeUpgrade(sender, newImplementation)
    IN  IF auth.result # OK THEN auth
        ELSE [auth EXCEPT
                !.implementation = newImplementation,
                !.logs = auth.logs \o
                         <<Event("Upgraded", newImplementation, ZeroAddress, "")>>]

commitmentCount == commitmentIdCounter

\* ------------------------------------------------------------------------
\* The state machine
\* ------------------------------------------------------------------------
CountOf(name, id, events) ==
    Cardinality({i \in 1..Len(events) : events[i].event = name /\ events[i].id = id})

Emitted(name, events) ==
    Cardinality({i \in 1..Len(events) : events[i].event = name})

Bump(count, name, events) ==
    [id \in Ids |-> count[id] + CountOf(name, id, events)]

\* The effect of the transaction `op` with outcome `tx` on the registry.
Applied(op, tx) ==
    /\ commitmentIdCounter' = tx.counter
    /\ commitments' = tx.commitments
    /\ witnessSigned' = tx.witnessSigned
    /\ paused' = tx.paused
    /\ roles' = tx.roles
    /\ logs' = tx.logs
    /\ implementation' = tx.implementation
    /\ lastCall' = [op |-> op, result |-> tx.result]
    /\ completedCount' = Bump(completedCount, "CommitmentCompleted", tx.logs)
    /\ verifiedCount' = Bump(verifiedCount, "CommitmentVerified", tx.logs)
    /\ createdCount' = createdCount + Emitted("CommitmentCreated", tx.logs)

\* The transaction `op` with outcome `tx` is mined; the client is not involved.
Mined(op, tx) ==
    /\ Applied(op, tx)
    /\ UNCHANGED <<wallet, binding>>

\* null, for an address, a provider and a text.
NoAddress == -1
NoProvider == "null"
BrowserProvider == "BrowserProvider"

\* initialState of the wallet provider.
initialState == [isConnected |-> FALSE, address |-> NoAddress]

\* null, for a text (a hash, an error message, the value createCommitment returns).
NoText == "null"

\* No call of the binding has been made yet.  pc is the await the page is
\* suspended at; estimate is the node's answer to the gas estimate and
\* response the wallet's answer to the submission, each "none" until it has
\* arrived; receipt.status is "none" until the transaction is broadcast,
\* "pending" until it is mined or replaced.
NoCall ==
    [fn |-> "none", pc |-> "idle", id |-> 0, fileHash |-> "", signer |-> ZeroAddress,
     witnesses |-> <<>>,
     provider |-> NoProvider, sender |-> NoAddress,
     estimate |-> "none", response |-> "none",
     receipt |-> [status |-> "none", logs |-> <<>>],
     returned |-> NoText]

\* initialize(admin)
Init ==
    /\ commitmentIdCounter = 0
    /\ commitments = <<>>
    /\ witnessSigned = <<>>
    /\ paused = FALSE
    /\ roles = [r \in Roles |-> IF r = DEFAULT_ADMIN_ROLE THEN {Admin} ELSE {}]
    /\ logs = <<Event("Upgraded", FirstImplementation, ZeroAddress, ""),
                Event("RoleGranted", 0, Admin, DEFAULT_ADMIN_ROLE),
                Event("Initialized", 1, ZeroAddress, "")>>
    /\ implementation = FirstImplementation
    /\ lastCall = [op |-> "initialize", result |-> OK]
    /\ completedCount = [id \in Ids |-> 0]
    /\ verifiedCount = [id \in Ids |-> 0]
    /\ createdCount = 0
    /\ accounts = NoAddress
    /\ state = initialState
    /\ provider = NoProvider
    /\ connecting = 0
    /\ updating = <<>>
    /\ txState = [isPending |-> FALSE, hash |-> NoText, error |-> NoText]
    /\ call = NoCall

\* Block timestamps do not go back.
LastCreatedAt == Commitment(commitmentIdCounter).createdAt

GrantsMade ==
    Cardinality({p \in Roles \X Addrs : p[2] \in roles[p[1]]}
                    \ {<<DEFAULT_ADMIN_ROLE, Admin>>})

CreateCommitment(sender, fileHash, signer, witnesses, timestamp) ==
    /\ timestamp >= LastCreatedAt
    /\ Mined("createCommitment",
             createCommitment(sender, fileHash, signer, witnesses, timestamp))

SignAsSigner(sender, id) ==
    /\ sender \in Addrs
    /\ Mined("signAsSigner", signAsSigner(sender, id))

SignAsWitness(sender, id) ==
    /\ sender \in Addrs
    /\ Mined("signAsWitness", signAsWitness(sender, id))

FreezeCommitment(sender, id) ==
    /\ sender \in Addrs
    /\ Mined("freezeCommitment", freezeCommitment(sender, id))

UnfreezeCommitment(sender, id) ==
    /\ sender \in Addrs
    /\ Mined("unfreezeCommitment", unfreezeCommitment(sender, id))

VerifyCommitment(sender, id) ==
    /\ sender \in Addrs
    /\ Mined("verifyCommitment", verifyCommitment(sender, id))

Pause(sender) ==
    /\ sender \in Addrs
    /\ Mined("pause", pause(sender))

Unpause(sender) ==
    /\ sender \in Addrs
    /\ Mined("unpause", unpause(sender))

GrantRole(sender, role, account) ==
    /\ GrantsMade < MaxGrants
    /\ Mined("grantRole", grantRole(sender, role, account))

RevokeRole(sender, role, account) ==
    /\ sender \in Addrs
    /\ Mined("revokeRole", revokeRole(sender, role, account))

RenounceRole(sender, role, callerConfirmation) ==
    /\ sender \in Addrs
    /\ Mined("renounceRole", renounceRole(sender, role, callerConfirmation))

UpgradeToAndCall(sender, newImplementation) ==
    /\ sender \in Addrs
    /\ Mined("upgradeToAndCall", upgradeToAndCall(sender, newImplementation))

Next ==
    \/ /\ commitmentIdCounter < MaxCommitments
       /\ \E sender \in Addrs, fileHash \in FileHashes, signer \in AddrArgs,
             witnesses \in WitnessLists, timestamp \in Timestamps :
               CreateCommitment(sender, fileHash, signer, witnesses, timestamp)
    \/ \E sender \in Addrs, id \in IdArgs : SignAsSigner(sender, id)
    \/ \E sender \in Addrs, id \in IdArgs : SignAsWitness(sender, id)
    \/ \E sender \in Addrs, id \in IdArgs : FreezeCommitment(sender, id)
    \/ \E sender \in Addrs, id \in IdArgs : UnfreezeCommitment(sender, id)
    \/ \E sender \in Addrs, id \in IdArgs : VerifyCommitment(sender, id)
    \/ \E sender \in Addrs : Pause(sender)
    \/ \E sender \in Addrs : Unpause(sender)
    \/ \E sender \in Addrs, role \in Roles, account \in GrantAccounts :
            GrantRole(sender, role, account)
    \/ \E sender \in RevokeAccounts, role \in MultiRoles, account \in GrantAccounts :
            RevokeRole(sender, role, account)

Spec == Init /\ [][Next]_vars

\* Several commitments side by side, each created from a few arguments.
NextMulti ==
    \/ \E sender \in MultiSenders, fileHash \in MultiFileHashes,
          signer \in MultiSigners, witnesses \in MultiWitnessLists,
          timestamp \in {commitmentIdCounter + 1} :  \* one block per creation
            /\ \/ commitmentIdCounter < MultiCommitments
               \/ createCommitmentRevert(sender, fileHash, signer, witnesses) # OK
            /\ CreateCommitment(sender, fileHash, signer, witnesses, timestamp)
    \/ \E sender \in Addrs, id \in MultiIdArgs : SignAsSigner(sender, id)
    \/ \E sender \in Addrs, id \in MultiIdArgs : SignAsWitness(sender, id)
    \/ \E sender \in Addrs, id \in MultiIdArgs : FreezeCommitment(sender, id)
    \/ \E sender \in Addrs, id \in MultiIdArgs : UnfreezeCommitment(sender, id)
    \/ \E sender \in Addrs, id \in MultiIdArgs : VerifyCommitment(sender, id)
    \/ \E sender \in Addrs : Pause(sender)
    \/ \E sender \in Addrs : Unpause(sender)
    \/ \E sender \in Addrs, role \in MultiRoles, account \in GrantAccounts :
            GrantRole(sender, role, account)
    \/ \E sender \in RevokeAccounts, role \in MultiRoles, account \in GrantAccounts :
            RevokeRole(sender, role, account)

SpecMulti == Init /\ [][NextMulti]_vars

\* The registry behind its proxy: one commitment, and upgrades of the logic.
NextUpgrade ==
    \/ /\ commitmentIdCounter < MaxCommitments
       /\ \E sender \in MultiSenders, fileHash \in MultiFileHashes,
             signer \in MultiSigners, witnesses \in MultiWitnessLists,
             timestamp \in Timestamps :
               CreateCommitment(sender, fileHash, signer, witnesses, timestamp)
    \/ \E sender \in Addrs, id \in IdArgs : SignAsSigner(sender, id)
    \/ \E sender \in Addrs, id \in IdArgs : SignAsWitness(sender, id)
    \/ \E sender \in Addrs, id \in IdArgs : FreezeCommitment(sender, id)
    \/ \E sender \in Addrs, id \in IdArgs : UnfreezeCommitment(sender, id)
    \/ \E sender \in Addrs, id \in IdArgs : VerifyCommitment(sender, id)
    \/ \E sender \in Addrs : Pause(sender)
    \/ \E sender \in Addrs : Unpause(sender)
    \/ \E sender \in Addrs, role \in MultiRoles, account \in GrantAccounts :
            GrantRole(sender, role, account)
    \/ \E sender \in Addrs, role \in MultiRoles, account \in GrantAccounts :
            RevokeRole(sender, role, account)
    \/ \E sender \in Addrs, role \in MultiRoles \cup {DEFAULT_ADMIN_ROLE},
          callerConfirmation \in RevokeAccounts :
            RenounceRole(sender, role, callerConfirmation)
    \/ \E sender \in Addrs, newImplementation \in Implementations :
            UpgradeToAndCall(sender, newImplementation)

SpecUpgrade == Init /\ [][NextUpgrade]_vars

\* One commitment with no, one or two witnesses, and every call on it.
NextSign ==
    \/ /\ commitmentIdCounter < MaxCommitments
       /\ \E sender \in SignSenders, signer \in SignSigners,
             witnesses \in SignWitnessLists, timestamp \in Timestamps :
               CreateCommitment(sender, "0xab", signer, witnesses, timestamp)
    \/ \E sender \in Addrs, id \in IdArgs : SignAsSigner(sender, id)
    \/ \E sender \in Addrs, id \in IdArgs : SignAsWitness(sender, id)
    \/ \E sender \in Addrs, id \in IdArgs : FreezeCommitment(sender, id)
    \/ \E sender \in Addrs, id \in IdArgs : UnfreezeCommitment(sender, id)
    \/ \E sender \in Addrs, id \in IdArgs : VerifyCommitment(sender, id)
    \/ \E sender \in Addrs : Pause(sender)
    \/ \E sender \in Addrs : Unpause(sender)
    \/ \E sender \in Addrs, role \in MultiRoles, account \in GrantAccounts :
            GrantRole(sender, role, account)
    \/ \E sender \in Addrs, role \in MultiRoles, account \in GrantAccounts :
            RevokeRole(sender, role, account)
    \/ \E sender \in Addrs, role \in MultiRoles \cup {DEFAULT_ADMIN_ROLE},
          callerConfirmation \in RevokeAccounts :
            RenounceRole(sender, role, callerConfirmation)

SpecSign == Init /\ [][NextSign]_vars

Existing == 1..commitmentIdCounter

\* ------------------------------------------------------------------------
\* The client: the wallet provider (useWallet.tsx).  The page runs with a
\* wallet extension installed (window.ethereum is defined).  Of WalletState
\* the fields isConnected and address are modelled; chainId, balance and
\* isCorrectNetwork are written together with them and read by no call.
\* ------------------------------------------------------------------------
ClientAccounts == {1, 2}   \* the accounts of the user's wallet
ClientWitnessLists == {<<3>>}   \* the witness lists of the commitments created next to the client
ClientIdArgs == {1}        \* the commitment ids the user's calls name
OtherSigners == {2, 3}     \* the parties whose own transactions are mined next to the client's

\* disconnect(): setState(initialState); setProvider(null)
disconnect ==
    /\ state' = initialState
    /\ provider' = NoProvider

\* The user presses "Connect" (shown while not connected): connect() builds
\* a BrowserProvider and awaits eth_requestAccounts.
Connect ==
    /\ ~state.isConnected
    /\ connecting = 0
    /\ connecting' = connecting + 1
    /\ UNCHANGED <<registry, binding, accounts, state, provider, updating>>

\* eth_requestAccounts resolves with account a exposed: setProvider(ethProvider),
\* then updateAccountInfo(ethProvider) starts.
RequestAccountsResolves(a) ==
    /\ connecting > 0
    /\ Len(updating) < MaxUpdates
    /\ accounts \in {NoAddress, a}
    /\ accounts' = a
    /\ provider' = BrowserProvider
    /\ connecting' = connecting - 1
    /\ updating' = Append(updating, NoAddress)
    /\ UNCHANGED <<registry, binding, state>>

\* The user rejects the request: connect() logs the error and returns.
RequestAccountsRejected ==
    /\ connecting > 0
    /\ connecting' = connecting - 1
    /\ UNCHANGED <<registry, binding, accounts, state, provider, updating>>

\* provider.getSigner(): the account the wallet exposes; with none exposed
\* the provider sends eth_requestAccounts, and the user approves an account
\* (a, exposed from now on) or rejects (a = NoAddress: getSigner rejects).
getSigner(a) ==
    /\ IF accounts # NoAddress THEN a = accounts
       ELSE a \in ClientAccounts \cup {NoAddress}
    /\ accounts' = IF a = NoAddress THEN accounts ELSE a

Remove(seq, i) == SubSeq(seq, 1, i - 1) \o SubSeq(seq, i + 1, Len(seq))

\* getSigner and getAddress of an updateAccountInfo call resolve: the address
\* is fixed here; if getSigner rejects, the catch block ends the call.
UpdateAccountInfoGetsAddress(i, a) ==
    /\ i \in 1..Len(updating)
    /\ updating[i] = NoAddress
    /\ getSigner(a)
    /\ updating' = IF a = NoAddress THEN Remove(updating, i)
                   ELSE [updating EXCEPT ![i] = a]
    /\ UNCHANGED <<registry, binding, state, provider, connecting>>

\* getBalance and getNetwork of an updateAccountInfo call have resolved:
\* setState marks the wallet connected, with the address got before.
UpdateAccountInfoCompletes(i) ==
    /\ i \in 1..Len(updating)
    /\ updating[i] # NoAddress
    /\ state' = [isConnected |-> TRUE, address |-> updating[i]]
    /\ updating' = Remove(updating, i)
    /\ UNCHANGED <<registry, binding, accounts, provider, connecting>>

\* An updateAccountInfo call fails on its way (a request to the node is
\* rejected): the catch block logs the error.
UpdateAccountInfoFails(i) ==
    /\ i \in 1..Len(updating)
    /\ updating' = Remove(updating, i)
    /\ UNCHANGED <<registry, binding, accounts, state, provider, connecting>>

\* The user presses "Disconnect" (shown while connected).
Disconnect ==
    /\ state.isConnected
    /\ disconnect
    /\ UNCHANGED <<registry, binding, accounts, connecting, updating>>

\* The wallet emits accountsChanged: handleAccountsChanged disconnects on an
\* empty list, and otherwise starts updateAccountInfo(provider) if a provider is set.
HandleAccountsChanged(a) ==
    /\ a # accounts
    /\ accounts' = a
    /\ IF a = NoAddress
         THEN disconnect /\ UNCHANGED updating
       ELSE IF provider # NoProvider
         THEN /\ Len(updating) < MaxUpdates
              /\ updating' = Append(updating, NoAddress)
              /\ UNCHANGED <<state, provider>>
       ELSE UNCHANGED <<state, provider, updating>>
    /\ UNCHANGED <<registry, binding, connecting>>

\* The wallet emits chainChanged: handleChainChanged reloads the page.  The
\* provider and the binding start afresh; the calls and updates under way
\* are abandoned (a transaction already broadcast stays with the network).
HandleChainChanged ==
    /\ state' = initialState
    /\ provider' = NoProvider
    /\ connecting' = 0
    /\ updating' = <<>>
    /\ txState' = [isPending |-> FALSE, hash |-> NoText, error |-> NoText]
    /\ call' = NoCall
    /\ UNCHANGED <<registry, accounts>>

\* ------------------------------------------------------------------------
\* The client binding (useContract.ts) and the interface it binds to
\* (CONTRACT_ABI in utils/contract.ts).
\* ------------------------------------------------------------------------
\* The signatures under which CONTRACT_ABI declares the functions the
\* binding calls.
CONTRACT_ABI ==
    [createCommitment |-> "createCommitment(string,address,address[])",
     signAsSigner |-> "signAsSigner(uint256)",
     signAsWitness |-> "signAsWitness(uint256)",
     getCommitment |-> "getCommitment(uint256)",
     getWitnesses |-> "getWitnesses(uint256)",
     commitmentExists |-> "commitmentExists(bytes32)"]

ErrNoFunction == "function selector was not recognized"

\* An eth_call of a view function on the registry.  The contract dispatches
\* on the selector of the signature; it has no fallback function, so a
\* selector matching none of its functions reverts.
ethCall(signature, id, address) ==
    CASE signature = "getCommitment(uint256)" -> getCommitment(id)
      [] signature = "hasWitnessSigned(uint256,address)" ->
                                        hasWitnessSignedView(id, address)
      [] signature = "getRole(uint256,address)" -> getRole(id, address)
      [] signature = "getWitnessCount(uint256)" -> getWitnessCount(id)
      [] signature = "commitmentCount()" ->
                            [Current EXCEPT !.returned = commitmentCount]
      [] OTHER -> Reverted(ErrNoFunction)

\* null, for the display record; undefined, for a field the result lacks.
null == [null |-> TRUE]
undefined == "undefined"

\* The fields of the result of getCommitment as the ABI names them; reading
\* any other name of the result gives undefined.
ResultFields ==
    {"id", "initiator", "signer", "witnesses", "fileHash", "createdAt",
     "initiatorSigned", "signerSigned", "witnessSignedCount", "isCompleted",
     "isFrozen", "isVerified"}

\* getReadContract(): null without a provider.
getReadContract == IF provider = NoProvider THEN null ELSE [null |-> FALSE]

\* getCommitment(commitmentId) of the binding: the display record, or null
\* when there is no provider or a call throws.
useContract_getCommitment(commitmentId) ==
    IF getReadContract = null THEN null
    ELSE LET data == ethCall(CONTRACT_ABI.getCommitment, commitmentId, ZeroAddress)
             witnesses == ethCall(CONTRACT_ABI.getWitnesses, commitmentId, ZeroAddress)
             read(field) == IF field \in ResultFields THEN data.returned[field]
                            ELSE undefined
         IN  IF data.result # OK THEN null
             ELSE IF witnesses.result # OK THEN null
             ELSE [null |-> FALSE,
                   id |-> commitmentId,
                   contentHash |-> read("contentHash"),
                   initiator |-> read("initiator"),
                   signer |-> [address |-> read("signerAddress"),
                               hasSigned |-> read("signerHasSigned"),
                               signedAt |-> read("signerSignedAt")],
                   witnesses |-> witnesses.returned,
                   status |-> read("status"),
                   createdAt |-> read("createdAt"),
                   completedAt |-> read("completedAt")]

\* commitmentExists(commitmentId) of the binding: false when there is no
\* provider or the call throws.
useContract_commitmentExists(commitmentId) ==
    IF getReadContract = null THEN FALSE
    ELSE LET r == ethCall(CONTRACT_ABI.commitmentExists, commitmentId, ZeroAddress)
         IN  IF r.result # OK THEN FALSE ELSE r.returned

\* The mutating calls of the binding.  A call runs: the isConnected check,
\* getWriteContract, the submission (contract.f(...): gas estimate, then the
\* wallet's prompt), tx.wait(), the return.  The node, the wallet and the
\* chain answer in steps of their own; the page goes on in a later step, and
\* the registry may change in between.
TxHash == "0xtx"
ErrConnect == "Please connect wallet first"
ErrNoContract == "Contract not available"
ErrUserRejected == "user rejected action"
ErrReplaced == "transaction was replaced"

Digits == <<"0", "1", "2", "3", "4", "5", "6", "7", "8", "9">>

\* commitmentId.toString(), in decimal.
RECURSIVE toString(_)
toString(n) ==
    IF n < 10 THEN Digits[n + 1]
    ELSE toString(n \div 10) \o Digits[(n % 10) + 1]

\* The values a call returns are kept as texts: null, a decimal id or a
\* hash from createCommitment, true and false from the signing calls.
true == "true"
false == "false"

\* What a call returns when it does not succeed: null from createCommitment,
\* false from signAsSigner and signAsWitness.
failure(fn) == IF fn = "createCommitment" THEN NoText ELSE false

\* The catch block of a call: the error is stored and the call returns.
caught(message) ==
    /\ txState' = [isPending |-> FALSE, hash |-> NoText, error |-> message]
    /\ call' = [call EXCEPT !.pc = "done", !.returned = failure(call.fn)]

\* The transaction a call submits, as the registry executes it in the
\* current state.
transaction(c) ==
    CASE c.fn = "createCommitment" ->
            createCommitment(c.sender, c.fileHash, c.signer, c.witnesses, MaxTime)
      [] c.fn = "signAsSigner" -> signAsSigner(c.sender, c.id)
      [] c.fn = "signAsWitness" -> signAsWitness(c.sender, c.id)

\* The user invokes createCommitment, signAsSigner or signAsWitness.
Call(fn, id, fileHash, signer, witnesses) ==
    /\ call.pc \in {"idle", "done"}
    /\ LET c == [NoCall EXCEPT !.fn = fn, !.id = id, !.fileHash = fileHash,
                               !.signer = signer, !.witnesses = witnesses]
       IN  IF ~state.isConnected
             THEN /\ txState' = [isPending |-> FALSE, hash |-> NoText,
                                 error |-> ErrConnect]
                  /\ call' = [c EXCEPT !.pc = "done", !.returned = failure(fn)]
             ELSE /\ txState' = [isPending |-> TRUE, hash |-> NoText,
                                 error |-> NoText]
                  /\ call' = [c EXCEPT !.pc = "getWriteContract",
                                       !.provider = provider]
    /\ UNCHANGED <<registry, wallet>>

\* getWriteContract(): null without a provider (the call throws "Contract
\* not available"); otherwise a contract bound to the provider's signer.
GetWriteContract(a) ==
    /\ call.pc = "getWriteContract"
    /\ IF call.provider = NoProvider
         THEN caught(ErrNoContract) /\ UNCHANGED accounts
       ELSE /\ getSigner(a)
            /\ IF a = NoAddress THEN caught(ErrUserRejected)
               ELSE /\ call' = [call EXCEPT !.pc = "estimateGas", !.sender = a]
                    /\ UNCHANGED txState
    /\ UNCHANGED <<registry, state, provider, connecting, updating>>

\* Faulty variant: the call returns its success value once the transaction
\* is submitted.
sent_Optimistic(hash) ==
    /\ txState' = [isPending |-> FALSE, hash |-> hash, error |-> NoText]
    /\ call' = [call EXCEPT !.pc = "done",
                            !.returned = IF call.fn = "createCommitment"
                                           THEN hash ELSE true]

\* The submission has resolved with the transaction response.
sent(hash) ==
    /\ txState' = [isPending |-> TRUE, hash |-> hash, error |-> NoText]
    /\ call' = [call EXCEPT !.pc = "wait"]

\* contract.f(...), eth_estimateGas: the node executes the transaction on
\* the state the chain has when it answers.  With a successful estimate the
\* library goes on to ask the wallet; a revert is delivered to the page.
EstimateGas ==
    /\ call.pc = "estimateGas"
    /\ call.estimate = "none"
    /\ LET simulated == transaction(call)
       IN  call' = [call EXCEPT !.estimate = simulated.result,
                                !.pc = IF simulated.result = OK THEN "send"
                                       ELSE "estimateGas"]
    /\ UNCHANGED <<registry, wallet, txState>>

\* The page goes on after a reverted estimate: contract.f(...) rejects and
\* the catch block stores the revert reason.
EstimateGasRejects ==
    /\ call.pc = "estimateGas"
    /\ call.estimate # "none"
    /\ caught(call.estimate)
    /\ UNCHANGED <<registry, wallet>>

\* contract.f(...), eth_sendTransaction: the wallet asks the user, whatever
\* other parties have had mined since the estimate.  An approved transaction
\* is broadcast and may be mined from then on; a refusal is answered with
\* an error.
Send(approved) ==
    /\ call.pc = "send"
    /\ call.response = "none"
    /\ call' = IF approved
                 THEN [call EXCEPT !.response = TxHash,
                                   !.receipt = [status |-> "pending", logs |-> <<>>]]
                 ELSE [call EXCEPT !.response = ErrUserRejected]
    /\ UNCHANGED <<registry, wallet, txState>>

\* The page goes on after the wallet's answer: with the transaction
\* response it stores the hash and starts tx.wait(); a refusal goes to the
\* catch block.
SendSettles ==
    /\ call.pc = "send"
    /\ call.response # "none"
    /\ IF call.response = TxHash THEN sent(call.response)
       ELSE caught(call.response)
    /\ UNCHANGED <<registry, wallet>>

\* The broadcast transaction is mined, after whatever was ordered before it,
\* whether or not the page has got as far as tx.wait().
TxMined ==
    /\ call.receipt.status = "pending"
    /\ LET tx == transaction(call)
       IN  /\ (call.fn = "createCommitment" /\ tx.result = OK)
                    => commitmentIdCounter < MaxCommitments
           /\ Applied(call.fn, tx)
           /\ call' = [call EXCEPT !.receipt = [status |-> tx.result,
                                                logs |-> tx.logs]]
    /\ UNCHANGED <<wallet, txState>>

\* The value a confirmed call returns: true from the signing calls; from
\* createCommitment the id of the CommitmentCreated event of the receipt as
\* a decimal string (null if the id is zero), or the hash if there is no
\* such event.
returnValue(c) ==
    IF c.fn # "createCommitment" THEN true
    ELSE LET created == {k \in 1..Len(c.receipt.logs) :
                            c.receipt.logs[k].event = "CommitmentCreated"}
         IN  IF created = {} THEN TxHash
             ELSE LET first == CHOOSE k \in created : \A j \in created : k <= j
                      commitmentId == c.receipt.logs[first].id
                  IN  IF commitmentId # 0 THEN toString(commitmentId)
                      ELSE NoText

\* The page goes on after tx.wait() has settled: it resolves with the
\* receipt of a successful transaction and rejects for a reverted or a
\* replaced one.
WaitSettles ==
    /\ call.pc = "wait"
    /\ call.receipt.status # "pending"
    /\ IF call.receipt.status # OK THEN caught(call.receipt.status)
       ELSE /\ txState' = [isPending |-> FALSE, hash |-> TxHash,
                           error |-> NoText]
            /\ call' = [call EXCEPT !.pc = "done",
                                    !.returned = returnValue(call)]
    /\ UNCHANGED <<registry, wallet>>

\* The user replaces the pending transaction in the wallet: it will never
\* be mined and tx.wait() rejects.
TxReplaced ==
    /\ call.receipt.status = "pending"
    /\ call' = [call EXCEPT !.receipt = [status |-> ErrReplaced, logs |-> <<>>]]
    /\ UNCHANGED <<registry, wallet, txState>>

\* resetTxState()
ResetTxState ==
    /\ txState # [isPending |-> FALSE, hash |-> NoText, error |-> NoText]
    /\ txState' = [isPending |-> FALSE, hash |-> NoText, error |-> NoText]
    /\ UNCHANGED <<registry, wallet, call>>

\* The calls the user makes: <<function, id, fileHash, signer, witnesses>>.
CallArgs ==
    {<<"createCommitment", 0, "0xab", 2, witnesses>> :
            witnesses \in ClientWitnessLists}
    \cup {<<fn, id, "", ZeroAddress, <<>> >> :
            fn \in {"signAsSigner", "signAsWitness"}, id \in ClientIdArgs}

BindingNext ==
    \/ \E args \in CallArgs : Call(args[1], args[2], args[3], args[4], args[5])
    \/ \E a \in ClientAccounts \cup {NoAddress} : GetWriteContract(a)
    \/ EstimateGas
    \/ EstimateGasRejects
    \/ \E approved \in BOOLEAN : Send(approved)
    \/ SendSettles
    \/ TxMined
    \/ WaitSettles
    \/ TxReplaced
    \/ ResetTxState

WalletNext ==
    \/ Connect
    \/ \E a \in ClientAccounts : RequestAccountsResolves(a)
    \/ RequestAccountsRejected
    \/ \E i \in 1..MaxUpdates, a \in ClientAccounts \cup {NoAddress} :
            UpdateAccountInfoGetsAddress(i, a)
    \/ \E i \in 1..MaxUpdates : UpdateAccountInfoCompletes(i)
    \/ \E i \in 1..MaxUpdates : UpdateAccountInfoFails(i)
    \/ Disconnect
    \/ \E a \in ClientAccounts \cup {NoAddress} : HandleAccountsChanged(a)
    \/ HandleChainChanged

\* The client next to the registry: one commitment, the calls other parties
\* make on it, and the user's wallet provider.
NextClient ==
    \/ /\ commitmentIdCounter < MaxCommitments
       /\ \E witnesses \in ClientWitnessLists :
               CreateCommitment(1, "0xab", 2, witnesses, MaxTime)
    \/ \E sender \in OtherSigners, id \in Existing : SignAsSigner(sender, id)
    \/ \E sender \in OtherSigners, id \in Existing : SignAsWitness(sender, id)
    \/ \E sender \in OtherSigners, id \in Existing : FreezeCommitment(sender, id)
    \/ \E sender \in OtherSigners, id \in Existing : UnfreezeCommitment(sender, id)
    \/ WalletNext
    \/ BindingNext

SpecClient == Init /\ [][NextClient]_vars

\* The signer's (a witness's) signature on commitment id is mined.
SignerSigns(id) ==
    /\ SignAsSigner(Commitment(id).signer, id)
    /\ lastCall'.result = OK

WitnessSigns(a, id) ==
    /\ SignAsWitness(a, id)
    /\ lastCall'.result = OK

\* Participants keep submitting their signatures: a signature that stays
\* possible is eventually mined.
SpecLive ==
    /\ Init /\ [][NextSign]_vars
    /\ \A id \in 1..MaxCommitments :
          /\ WF_vars(SignerSigns(id))
          /\ \A a \in Addrs : WF_vars(WitnessSigns(a, id))

\* ------------------------------------------------------------------------
\* Properties
\* ------------------------------------------------------------------------
hasWitnessSigned(id, a) == HasWitnessSignedIn(witnessSigned, id, a)

AllSigned(c) ==
    c.initiatorSigned /\ c.signerSigned /\ c.witnessSignedCount = Len(c.witnesses)

\* C1: in every reachable state a commitment is completed exactly when the
\* initiator, the signer and all of its witnesses have signed (so a
\* commitment without witnesses is completed by the signer's signature, and
\* one with two witnesses only by the second witness's).
C1_CompletedIffAllSigned ==
    \A id \in Existing :
        Commitment(id).isCompleted <=> AllSigned(Commitment(id))

\* A commitment with two witnesses that the second witness's signature completed.
C1_Witness ==
    /\ lastCall = [op |-> "signAsWitness", result |-> OK]
    /\ \E id \in Existing :
        /\ Len(Commitment(id).witnesses) = 2
        /\ Commitment(id).witnessSignedCount = 2
        /\ Commitment(id).isCompleted

\* C2: CommitmentCompleted is emitted at most once per commitment id, namely
\* by the transaction that sets isCompleted, and never again afterwards.
C2_CompletedEmittedAtMostOnce ==
    \A id \in Ids :
        /\ completedCount[id] <= 1
        /\ completedCount[id] = 1 <=> Commitment(id).isCompleted

\* A completed commitment on which the signer tried to sign once more.
C2_Witness ==
    /\ lastCall = [op |-> "signAsSigner", result |-> ErrAlreadySigned]
    /\ \E id \in Existing :
        Commitment(id).isCompleted /\ completedCount[id] = 1

\* C3: once isCompleted is true it is true after every later step, whatever
\* the operation (signing, freeze, unfreeze, verify, pause, unpause, create).
C3_CompletedIsStable ==
    [][\A id \in Ids :
          Commitment(id).isCompleted => Commitment(id)'.isCompleted]_vars

\* A second commitment created while the first one is completed.
C3_Witness ==
    /\ lastCall = [op |-> "createCommitment", result |-> OK]
    /\ commitmentIdCounter = 2
    /\ Commitment(1).isCompleted

\* C4: initiatorSigned holds from creation on; signerSigned and every
\* witness's flag never go back to false; witnessSignedCount never decreases.
C4_SignaturesMonotonic ==
    [][/\ \A id \in 1..commitmentIdCounter' : Commitment(id)'.initiatorSigned
       /\ \A id \in Existing :
            /\ Commitment(id).signerSigned => Commitment(id)'.signerSigned
            /\ \A a \in Addrs : hasWitnessSigned(id, a) => hasWitnessSigned(id, a)'
            /\ Commitment(id)'.witnessSignedCount >= Commitment(id).witnessSignedCount
      ]_vars

\* A commitment unfrozen after the signer and a witness have signed.
C4_Witness ==
    /\ lastCall = [op |-> "unfreezeCommitment", result |-> OK]
    /\ \E id \in Existing :
        /\ Commitment(id).signerSigned
        /\ Commitment(id).witnessSignedCount = 1
        /\ Len(Commitment(id).witnesses) = 2

\* C5: witnessSignedCount is the number of addresses whose witness flag is
\* set, every such address is one of the commitment's witnesses, and so the
\* count lies between 0 and the number of witnesses.
C5_WitnessCountMatchesFlags ==
    \A id \in Existing :
        LET c == Commitment(id)
            signed == {a \in Addrs : hasWitnessSigned(id, a)}
        IN  /\ c.witnessSignedCount = Cardinality(signed)
            /\ \A a \in signed : _isWitness(id, a)
            /\ 0 <= c.witnessSignedCount
            /\ c.witnessSignedCount <= Len(c.witnesses)

\* Both witnesses of a commitment have signed, the signer has not.
C5_Witness ==
    /\ lastCall = [op |-> "signAsWitness", result |-> OK]
    /\ \E id \in Existing :
        /\ Commitment(id).witnessSignedCount = 2
        /\ ~Commitment(id).signerSigned

\* The outcome tx is a revert: nothing written, nothing emitted.
NothingChanged(tx) ==
    /\ tx.counter = commitmentIdCounter
    /\ tx.commitments = commitments
    /\ tx.witnessSigned = witnessSigned
    /\ tx.paused = paused
    /\ tx.roles = roles
    /\ tx.implementation = implementation
    /\ tx.logs = <<>>

\* C6 as stated: once the signer (a witness) has signed, every later
\* signAsSigner by the signer (signAsWitness by that witness) on the
\* commitment is rejected with "Already signed" and changes nothing.
C6_Original ==
    \A id \in Existing :
        /\ Commitment(id).signerSigned =>
             LET tx == signAsSigner(Commitment(id).signer, id)
             IN  tx.result = ErrAlreadySigned /\ NothingChanged(tx)
        /\ \A a \in Addrs : hasWitnessSigned(id, a) =>
             LET tx == signAsWitness(a, id)
             IN  tx.result = ErrAlreadySigned /\ NothingChanged(tx)

\* C6, amended: once the signer (a witness) has signed, every later
\* signAsSigner by the signer (signAsWitness by that witness) on the
\* commitment is rejected and changes nothing; the reason is "Already
\* signed" unless the commitment is frozen ("Commitment is frozen") or, for
\* signAsSigner, the registry is paused (EnforcedPause).
C6_SecondSignatureRejected ==
    \A id \in Existing :
        /\ Commitment(id).signerSigned =>
             LET tx == signAsSigner(Commitment(id).signer, id)
             IN  /\ tx.result = IF paused THEN ErrEnforcedPause
                                ELSE IF Commitment(id).isFrozen THEN ErrFrozen
                                ELSE ErrAlreadySigned
                 /\ NothingChanged(tx)
        /\ \A a \in Addrs : hasWitnessSigned(id, a) =>
             LET tx == signAsWitness(a, id)
             IN  /\ tx.result = IF Commitment(id).isFrozen THEN ErrFrozen
                                ELSE ErrAlreadySigned
                 /\ NothingChanged(tx)

\* A witness who has signed tried to sign again and was told so.
C6_Witness ==
    /\ lastCall = [op |-> "signAsWitness", result |-> ErrAlreadySigned]
    /\ \E id \in Existing : Commitment(id).witnessSignedCount >= 1

FrozenRejectsSigning ==
    \A id \in Existing : Commitment(id).isFrozen =>
        \A sender \in Addrs :
            /\ signAsSigner(sender, id).result # OK
            /\ NothingChanged(signAsSigner(sender, id))
            /\ signAsWitness(sender, id).result # OK
            /\ NothingChanged(signAsWitness(sender, id))

JustUnfrozen(id) ==
    /\ lastCall = [op |-> "unfreezeCommitment", result |-> OK]
    /\ Len(logs) = 1
    /\ logs[1].id = id

\* C7 as stated: while a commitment is frozen, signAsSigner and
\* signAsWitness on it are rejected for every caller and change nothing;
\* after an unfreeze, signAsSigner by the signer, who has not signed yet,
\* succeeds.
C7_Original ==
    /\ FrozenRejectsSigning
    /\ \A id \in Existing :
         JustUnfrozen(id) /\ ~Commitment(id).signerSigned =>
            signAsSigner(Commitment(id).signer, id).result = OK

\* C7, amended: while a commitment is frozen, signAsSigner and signAsWitness
\* on it are rejected for every caller and change nothing; after an
\* unfreeze, signAsSigner by the signer, who has not signed yet, succeeds
\* provided the registry is not paused.
C7_FrozenBlocksSigning ==
    /\ FrozenRejectsSigning
    /\ \A id \in Existing :
         JustUnfrozen(id) /\ ~Commitment(id).signerSigned /\ ~paused =>
            LET tx == signAsSigner(Commitment(id).signer, id)
            IN  tx.result = OK /\ tx.commitments[id].signerSigned

\* The signer was turned away from a frozen commitment.
C7_Witness ==
    /\ lastCall = [op |-> "signAsSigner", result |-> ErrFrozen]
    /\ \E id \in Existing :
        Commitment(id).isFrozen /\ ~Commitment(id).signerSigned

\* tx wrote isFrozen = value to commitment id and nothing else.
OnlyIsFrozenSet(tx, id, value) ==
    /\ DOMAIN tx.commitments = DOMAIN commitments
    /\ tx.commitments[id].isFrozen = value
    /\ [tx.commitments[id] EXCEPT !.isFrozen = ~value] = commitments[id]
    /\ \A other \in DOMAIN commitments \ {id} :
          tx.commitments[other] = commitments[other]
    /\ tx.witnessSigned = witnessSigned
    /\ tx.counter = commitmentIdCounter
    /\ tx.paused = paused
    /\ tx.roles = roles
    /\ tx.implementation = implementation

\* C8: freezeCommitment succeeds only on a commitment that is not frozen and
\* sets isFrozen; unfreezeCommitment succeeds only on a frozen one and clears
\* it; neither changes any other field of any commitment, a witness flag,
\* the id counter or the pause flag.
C8_FreezeTogglesOnlyIsFrozen ==
    \A id \in Ids, sender \in Addrs :
        /\ freezeCommitment(sender, id).result = OK =>
             /\ id \in Existing
             /\ ~Commitment(id).isFrozen
             /\ OnlyIsFrozenSet(freezeCommitment(sender, id), id, TRUE)
        /\ unfreezeCommitment(sender, id).result = OK =>
             /\ id \in Existing
             /\ Commitment(id).isFrozen
             /\ OnlyIsFrozenSet(unfreezeCommitment(sender, id), id, FALSE)

\* A commitment with signatures on it, verified, then frozen and unfrozen.
C8_Witness ==
    /\ lastCall = [op |-> "unfreezeCommitment", result |-> OK]
    /\ \E id \in Existing :
        /\ Commitment(id).isVerified
        /\ Commitment(id).witnessSignedCount = 1
        /\ ~Commitment(id).isFrozen

\* C9: isVerified implies isCompleted; verifyCommitment is rejected while the
\* commitment is not completed, succeeds on a completed, unverified one
\* (setting isVerified and emitting CommitmentVerified), and is rejected
\* once it is verified; CommitmentVerified is emitted exactly once for a
\* verified commitment, which stays verified (the event count never
\* decreases, and is 1 exactly while isVerified holds).
C9_VerifyOnceAfterCompletion ==
    \A id \in Ids :
        /\ Commitment(id).isVerified => Commitment(id).isCompleted
        /\ verifiedCount[id] = IF Commitment(id).isVerified THEN 1 ELSE 0
        /\ \A sender \in Addrs :
             LET tx == verifyCommitment(sender, id)
             IN  IF id \in Existing /\ Commitment(id).isCompleted
                    /\ ~Commitment(id).isVerified
                 THEN /\ tx.result = OK
                      /\ tx.commitments[id] = [Commitment(id) EXCEPT !.isVerified = TRUE]
                      /\ tx.logs = <<Event("CommitmentVerified", id, sender, "")>>
                 ELSE /\ tx.result # OK
                      /\ NothingChanged(tx)

\* A second verification of a verified commitment was rejected.
C9_Witness ==
    /\ lastCall = [op |-> "verifyCommitment", result |-> ErrAlreadyVerified]
    /\ \E id \in Existing : Commitment(id).isVerified /\ verifiedCount[id] = 1

CommitmentOps ==
    {"createCommitment", "signAsSigner", "signAsWitness",
     "freezeCommitment", "unfreezeCommitment", "verifyCommitment"}

\* C10: a rejected createCommitment, signAsSigner, signAsWitness,
\* freezeCommitment, unfreezeCommitment or verifyCommitment leaves the id
\* counter, every commitment, every witness flag and the pause flag as they
\* were and emits no event.
C10_RejectedCallChangesNothing ==
    [][lastCall'.op \in CommitmentOps /\ lastCall'.result # OK =>
          /\ UNCHANGED <<commitmentIdCounter, commitments, witnessSigned, paused,
                         implementation, completedCount, verifiedCount,
                         createdCount>>
          /\ logs' = <<>>]_vars

\* A creation rejected for a duplicate witness while a commitment exists.
C10_Witness ==
    /\ lastCall = [op |-> "createCommitment", result |-> ErrDuplicateWitness]
    /\ commitmentIdCounter >= 1
    /\ Commitment(1).signerSigned

\* C11: createCommitment succeeds only for a caller holding POLICE_ROLE: in
\* every reachable state a call by an identity without the role, whatever
\* its arguments, is rejected and creates no commitment.
C11_OnlyOriginatorCreates ==
    \A sender \in Addrs, fileHash \in FileHashes, signer \in AddrArgs,
       witnesses \in WitnessLists, timestamp \in Timestamps :
        ~hasRole(POLICE_ROLE, sender) =>
            LET tx == createCommitment(sender, fileHash, signer, witnesses, timestamp)
            IN  /\ tx.result # OK
                /\ tx.counter = commitmentIdCounter
                /\ tx.commitments = commitments

\* C12: while the registry is paused every createCommitment call is rejected
\* with EnforcedPause and leaves the commitment count as it was.
C12_PauseBlocksCreation ==
    paused =>
        \A sender \in Addrs, fileHash \in FileHashes, signer \in AddrArgs,
           witnesses \in WitnessLists, timestamp \in Timestamps :
            LET tx == createCommitment(sender, fileHash, signer, witnesses, timestamp)
            IN  /\ tx.result = ErrEnforcedPause
                /\ tx.counter = commitmentIdCounter

\* C13: from a paused registry, signAsSigner is rejected (EnforcedPause)
\* for every commitment id and every caller and writes nothing, and no step
\* taken while paused changes any commitment's signerSigned.
C13_PauseBlocksSignAsSigner ==
    [][paused =>
          /\ \A id \in Ids, sender \in Addrs :
                /\ signAsSigner(sender, id).result = ErrEnforcedPause
                /\ NothingChanged(signAsSigner(sender, id))
          /\ \A id \in Ids :
                Commitment(id)'.signerSigned = Commitment(id).signerSigned]_vars

\* The signer of an open commitment was turned away by the pause.
C13_Witness ==
    /\ paused
    /\ lastCall = [op |-> "signAsSigner", result |-> ErrEnforcedPause]
    /\ \E id \in Existing :
        /\ ~Commitment(id).signerSigned
        /\ ~Commitment(id).isFrozen

\* C14: while the registry is paused, signAsWitness is rejected for every
\* commitment id and every caller, so it sets no witness flag, raises no
\* witnessSignedCount and completes no commitment.
C14_PauseBlocksSignAsWitness ==
    paused =>
        \A id \in Ids, sender \in Addrs :
            /\ signAsWitness(sender, id).result # OK
            /\ NothingChanged(signAsWitness(sender, id))

\* C15: freezeCommitment and unfreezeCommitment succeed only for a caller
\* holding EMERGENCY_ROLE: a call by an identity without the role is
\* rejected and changes isFrozen of no commitment.
C15_OnlyEmergencyFreezes ==
    \A id \in Ids, sender \in Addrs :
        ~hasRole(EMERGENCY_ROLE, sender) =>
            /\ freezeCommitment(sender, id).result # OK
            /\ freezeCommitment(sender, id).commitments = commitments
            /\ unfreezeCommitment(sender, id).result # OK
            /\ unfreezeCommitment(sender, id).commitments = commitments

\* C16: verifyCommitment succeeds only for a caller holding VERIFIER_ROLE: a
\* call by an identity without the role is rejected and sets isVerified of
\* no commitment.
C16_OnlyVerifierVerifies ==
    \A id \in Ids, sender \in Addrs :
        ~hasRole(VERIFIER_ROLE, sender) =>
            /\ verifyCommitment(sender, id).result # OK
            /\ verifyCommitment(sender, id).commitments = commitments

\* C17: the upgrade authorization hook rejects every caller that does not
\* hold DEFAULT_ADMIN_ROLE, so an upgrade sent by such a caller is rejected
\* and leaves the implementation as it was.
C17_OnlyAdminUpgrades ==
    \A sender \in Addrs, newImplementation \in Implementations :
        ~hasRole(DEFAULT_ADMIN_ROLE, sender) =>
            /\ _authorizeUpgrade(sender, newImplementation).result # OK
            /\ upgradeToAndCall(sender, newImplementation).result # OK
            /\ upgradeToAndCall(sender, newImplementation).implementation
                    = implementation

\* C18: the pause flag is false after initialize; it goes from false to true
\* only in a pause() sent by a holder of EMERGENCY_ROLE and from true to
\* false only in an unpause() sent by a holder of DEFAULT_ADMIN_ROLE; pause()
\* by a caller without EMERGENCY_ROLE and unpause() by a caller without
\* DEFAULT_ADMIN_ROLE (an EMERGENCY_ROLE holder included) are rejected as
\* unauthorized and change nothing.
C18_PauseFlagTransitions ==
    /\ ~paused
    /\ [][/\ (~paused /\ paused') =>
                /\ lastCall'.op = "pause"
                /\ \E sender \in Addrs :
                     /\ hasRole(EMERGENCY_ROLE, sender)
                     /\ logs' = <<Event("Paused", 0, sender, "")>>
          /\ (paused /\ ~paused') =>
                /\ lastCall'.op = "unpause"
                /\ \E sender \in Addrs :
                     /\ hasRole(DEFAULT_ADMIN_ROLE, sender)
                     /\ logs' = <<Event("Unpaused", 0, sender, "")>>
          /\ \A sender \in Addrs :
                /\ ~hasRole(EMERGENCY_ROLE, sender) =>
                     /\ pause(sender).result = ErrUnauthorized
                     /\ NothingChanged(pause(sender))
                /\ ~hasRole(DEFAULT_ADMIN_ROLE, sender) =>
                     /\ unpause(sender).result = ErrUnauthorized
                     /\ NothingChanged(unpause(sender))
         ]_vars

\* The registry is paused, an emergency holder who is not administrator
\* exists, and an unpause was just rejected as unauthorized.
C18_Witness ==
    /\ paused
    /\ lastCall = [op |-> "unpause", result |-> ErrUnauthorized]
    /\ \E sender \in Addrs :
        hasRole(EMERGENCY_ROLE, sender) /\ ~hasRole(DEFAULT_ADMIN_ROLE, sender)

\* C19: the count is 0 after initialize and always equals the number of
\* successful creations; the commitments stored are exactly those with ids
\* 1..count, each under its own id; a successful createCommitment returns
\* count + 1 and raises the count by one (so the k-th returns k), and a
\* rejected one returns nothing and leaves the count as it was.
C19_IdsCountSuccessfulCreations ==
    /\ lastCall.op = "initialize" => commitmentCount = 0
    /\ commitmentCount = createdCount
    /\ DOMAIN commitments = Existing
    /\ \A id \in Existing : Commitment(id).id = id
    /\ \A sender \in MultiSenders, fileHash \in MultiFileHashes,
          signer \in MultiSigners, witnesses \in MultiWitnessLists,
          timestamp \in Timestamps :
            LET tx == createCommitment(sender, fileHash, signer, witnesses, timestamp)
            IN  IF tx.result = OK
                THEN /\ tx.returned = commitmentCount + 1
                     /\ tx.counter = commitmentCount + 1
                     /\ tx.returned \in DOMAIN tx.commitments
                     /\ tx.commitments[tx.returned].id = tx.returned
                     /\ \A id \in Existing : tx.commitments[id] = commitments[id]
                ELSE /\ tx.returned = 0
                     /\ tx.counter = commitmentCount
                     /\ tx.commitments = commitments

\* After two successful creations a third call was rejected and took no id.
C19_Witness ==
    /\ lastCall = [op |-> "createCommitment", result |-> ErrInvalidSigner]
    /\ commitmentCount = 2
    /\ createdCount = 2
    /\ Commitment(2).id = 2

\* What createCommitment must turn away: an empty fingerprint, a null signer,
\* a signer equal to the caller, a null witness, a witness equal to the
\* signer, a witness listed twice.
BadCreation(sender, fileHash, signer, witnesses) ==
    \/ fileHash = ""
    \/ signer = ZeroAddress
    \/ signer = sender
    \/ \E i \in 1..Len(witnesses) :
          witnesses[i] = ZeroAddress \/ witnesses[i] = signer
    \/ \E i, j \in 1..Len(witnesses) : i # j /\ witnesses[i] = witnesses[j]

\* C20: createCommitment rejects, writing nothing, every call with an empty
\* fingerprint, a null signer, a signer equal to the caller, a null witness,
\* a witness equal to the signer or a duplicate witness; and every stored
\* commitment has a non-empty fileHash, a non-null signer different from its
\* initiator, and witnesses that are non-null, pairwise distinct and
\* different from the signer.
C20_CreationInputsValidated ==
    /\ \A sender \in Addrs, fileHash \in FileHashes, signer \in AddrArgs,
          witnesses \in WitnessLists, timestamp \in Timestamps :
            BadCreation(sender, fileHash, signer, witnesses) =>
                LET tx == createCommitment(sender, fileHash, signer, witnesses, timestamp)
                IN  tx.result # OK /\ NothingChanged(tx)
    /\ \A id \in Existing :
          LET c == Commitment(id)
          IN  /\ c.fileHash # ""
              /\ c.signer # ZeroAddress
              /\ c.signer # c.initiator
              /\ \A i \in 1..Len(c.witnesses) :
                    /\ c.witnesses[i] # ZeroAddress
                    /\ c.witnesses[i] # c.signer
                    /\ \A j \in 1..Len(c.witnesses) :
                          i # j => c.witnesses[i] # c.witnesses[j]

\* A commitment stored with two witnesses, one of them its initiator.
C20_Witness ==
    /\ lastCall = [op |-> "createCommitment", result |-> OK]
    /\ \E id \in Existing :
        /\ Len(Commitment(id).witnesses) = 2
        /\ _isWitness(id, Commitment(id).initiator)

\* C21: createCommitment rejects every witness list that contains the
\* caller, so no stored commitment has a witness equal to its initiator.
C21_WitnessNeverInitiator ==
    /\ \A sender \in Addrs, fileHash \in FileHashes, signer \in AddrArgs,
          witnesses \in WitnessLists, timestamp \in Timestamps :
            (\E i \in 1..Len(witnesses) : witnesses[i] = sender) =>
                createCommitment(sender, fileHash, signer, witnesses, timestamp).result
                    # OK
    /\ \A id \in Existing : ~_isWitness(id, Commitment(id).initiator)

\* C22: createCommitment is rejected whenever a named witness does not hold
\* LAWYER_ROLE, with "Witness must have LAWYER_ROLE" when the call has no
\* other defect; so every witness of a commitment just stored holds the role.
C22_WitnessesHoldLawyerRole ==
    /\ \A sender \in Addrs, fileHash \in FileHashes, signer \in AddrArgs,
          witnesses \in WitnessLists, timestamp \in Timestamps :
            (\E i \in 1..Len(witnesses) : ~hasRole(LAWYER_ROLE, witnesses[i])) =>
                LET tx == createCommitment(sender, fileHash, signer, witnesses, timestamp)
                IN  /\ tx.result # OK
                    /\ ~BadCreation(sender, fileHash, signer, witnesses) =>
                            tx.result = ErrWitnessNotLawyer
    /\ lastCall = [op |-> "createCommitment", result |-> OK] =>
          \A i \in 1..Len(Commitment(commitmentIdCounter).witnesses) :
              hasRole(LAWYER_ROLE, Commitment(commitmentIdCounter).witnesses[i])

\* C23 as stated: on an existing commitment, signAsSigner by any caller
\* other than the commitment's signer is rejected with "Not the designated
\* signer" and changes nothing.
C23_Original ==
    \A id \in Existing, sender \in Addrs :
        sender # Commitment(id).signer =>
            /\ signAsSigner(sender, id).result = ErrNotSigner
            /\ NothingChanged(signAsSigner(sender, id))

\* C23, amended: signAsSigner succeeds only for the commitment's signer; a
\* call by any other identity (the initiator and the witnesses included) is
\* rejected and changes nothing, with "Not the designated signer" unless the
\* registry is paused (EnforcedPause) or the commitment is frozen
\* ("Commitment is frozen").
C23_OnlySignerSignsAsSigner ==
    \A id \in Existing, sender \in Addrs :
        LET tx == signAsSigner(sender, id)
        IN  /\ tx.result = OK => sender = Commitment(id).signer
            /\ sender # Commitment(id).signer =>
                  /\ tx.result = IF paused THEN ErrEnforcedPause
                                 ELSE IF Commitment(id).isFrozen THEN ErrFrozen
                                 ELSE ErrNotSigner
                  /\ NothingChanged(tx)

\* A caller who is not the signer was turned away from a commitment that
\* has witnesses and still lacks the signer's signature.
C23_Witness ==
    /\ lastCall = [op |-> "signAsSigner", result |-> ErrNotSigner]
    /\ \E id \in Existing :
        /\ ~Commitment(id).signerSigned
        /\ Len(Commitment(id).witnesses) >= 1

\* The outcome tx of signAsWitness(sender, id) set the caller's flag, raised
\* the count by one, and touched no other flag, commitment or counter.
OnlyOwnWitnessFlagSet(tx, sender, id) ==
    /\ ~hasWitnessSigned(id, sender)
    /\ tx.witnessSigned[id] =
            [WitnessSignedOf(witnessSigned, id) EXCEPT ![sender] = TRUE]
    /\ \A other \in Ids \ {id} :
            WitnessSignedOf(tx.witnessSigned, other) = WitnessSignedOf(witnessSigned, other)
    /\ tx.commitments[id].witnessSignedCount = Commitment(id).witnessSignedCount + 1
    /\ \A other \in DOMAIN commitments \ {id} :
            tx.commitments[other] = commitments[other]
    /\ tx.counter = commitmentIdCounter

\* C24 as stated: signAsWitness succeeds only for a listed witness of an
\* unfrozen commitment whose initiator has signed, then sets exactly the
\* caller's flag and raises witnessSignedCount by exactly one; a caller not
\* in the list is rejected with "Not a designated witness".
C24_Original ==
    \A id \in Existing, sender \in Addrs :
        LET tx == signAsWitness(sender, id)
        IN  /\ tx.result = OK =>
                  /\ _isWitness(id, sender)
                  /\ ~Commitment(id).isFrozen
                  /\ Commitment(id).initiatorSigned
                  /\ OnlyOwnWitnessFlagSet(tx, sender, id)
            /\ ~_isWitness(id, sender) => tx.result = ErrNotWitness

\* C24, amended: as stated, except that a caller not in the list is
\* rejected with "Not a designated witness" only on an unfrozen commitment;
\* on a frozen one the rejection reads "Commitment is frozen".  Either way
\* nothing changes.
C24_OnlyWitnessSignsAsWitness ==
    \A id \in Existing, sender \in Addrs :
        LET tx == signAsWitness(sender, id)
        IN  /\ tx.result = OK =>
                  /\ _isWitness(id, sender)
                  /\ ~Commitment(id).isFrozen
                  /\ Commitment(id).initiatorSigned
                  /\ OnlyOwnWitnessFlagSet(tx, sender, id)
            /\ ~_isWitness(id, sender) =>
                  /\ tx.result = IF Commitment(id).isFrozen THEN ErrFrozen
                                 ELSE ErrNotWitness
                  /\ NothingChanged(tx)

\* A caller outside the witness list was turned away while one of the two
\* listed witnesses has signed.
C24_Witness ==
    /\ lastCall = [op |-> "signAsWitness", result |-> ErrNotWitness]
    /\ \E id \in Existing :
        /\ Len(Commitment(id).witnesses) = 2
        /\ Commitment(id).witnessSignedCount = 1

\* The fields of a commitment that are written at creation only.
Identity(c) ==
    <<c.id, c.initiator, c.signer, c.witnesses, c.fileHash, c.createdAt>>

\* C25: no step (signing, freeze, unfreeze, verify, pause, unpause, a later
\* create, rejected calls) changes the id, initiator, signer, witnesses
\* (content and order), fileHash or createdAt of an existing commitment.
C25_IdentityFieldsImmutable ==
    [][\A id \in Existing :
          Identity(Commitment(id))' = Identity(Commitment(id))]_vars

\* Two commitments created in different blocks exist; the first is frozen,
\* the second has been verified.
C25_Witness ==
    /\ lastCall = [op |-> "verifyCommitment", result |-> OK]
    /\ Commitment(1).createdAt < Commitment(2).createdAt
    /\ commitmentIdCounter = 2
    /\ Commitment(1).isFrozen
    /\ Commitment(2).isVerified

\* C26: a successful createCommitment stores under the new id a record with
\* the caller as initiator, the given signer, witnesses and fileHash, the
\* block's timestamp, initiatorSigned true and every other flag false and
\* the count 0; no witness flag of the new id is set; and it emits
\* CommitmentCreated, then CommitmentSigned tagged "initiator", and nothing
\* else (no CommitmentCompleted, also when the witness list is empty).
C26_CreationStoresFreshRecord ==
    \A sender \in Addrs, fileHash \in FileHashes, signer \in AddrArgs,
       witnesses \in WitnessLists, timestamp \in Timestamps :
        LET tx == createCommitment(sender, fileHash, signer, witnesses, timestamp)
            new == commitmentIdCounter + 1
        IN  tx.result = OK =>
              /\ tx.commitments[new] =
                    [id |-> new, initiator |-> sender, signer |-> signer,
                     witnesses |-> witnesses, fileHash |-> fileHash,
                     createdAt |-> timestamp,
                     initiatorSigned |-> TRUE, signerSigned |-> FALSE,
                     witnessSignedCount |-> 0, isCompleted |-> FALSE,
                     isFrozen |-> FALSE, isVerified |-> FALSE]
              /\ \A a \in Addrs : ~HasWitnessSignedIn(tx.witnessSigned, new, a)
              /\ tx.logs = <<Event("CommitmentCreated", new, sender, ""),
                             Event("CommitmentSigned", new, sender, "initiator")>>

\* A commitment without witnesses was just created and is not completed.
C26_Witness ==
    /\ lastCall = [op |-> "createCommitment", result |-> OK]
    /\ Len(logs) = 2
    /\ Len(Commitment(commitmentIdCounter).witnesses) = 0
    /\ ~Commitment(commitmentIdCounter).isCompleted
    /\ completedCount[commitmentIdCounter] = 0

\* The ids no commitment is stored under: 0 and those above the count.
InvalidIds == Ids \ Existing

\* The id-taking operations other than signAsSigner reject an invalid id
\* with "Invalid commitment ID"; getCommitment returns the stored record
\* for every id in 1..count, paused or not, frozen or not.
InvalidIdRejected ==
    /\ \A id \in InvalidIds, sender \in Addrs :
          /\ signAsWitness(sender, id).result = ErrInvalidId
          /\ freezeCommitment(sender, id).result = ErrInvalidId
          /\ unfreezeCommitment(sender, id).result = ErrInvalidId
          /\ verifyCommitment(sender, id).result = ErrInvalidId
          /\ getCommitment(id).result = ErrInvalidId
          /\ hasWitnessSignedView(id, sender).result = ErrInvalidId
          /\ getRole(id, sender).result = ErrInvalidId
    /\ \A id \in Existing :
          /\ getCommitment(id).result = OK
          /\ getCommitment(id).returned = commitments[id]

\* C27 as stated: every id-taking operation, signAsSigner included, rejects
\* an id that is 0 or above the count with "Invalid commitment ID", and
\* getCommitment succeeds for every id in 1..count.
C27_Original ==
    /\ InvalidIdRejected
    /\ \A id \in InvalidIds, sender \in Addrs :
          signAsSigner(sender, id).result = ErrInvalidId

\* C27, amended: as stated, except that signAsSigner rejects an invalid id
\* with "Invalid commitment ID" only while the registry is not paused;
\* while it is paused the rejection is EnforcedPause.
C27_InvalidIdRejected ==
    /\ InvalidIdRejected
    /\ \A id \in InvalidIds, sender \in Addrs :
          /\ signAsSigner(sender, id).result =
                IF paused THEN ErrEnforcedPause ELSE ErrInvalidId
          /\ NothingChanged(signAsSigner(sender, id))

\* The registry is paused, its one commitment is frozen, and a call on id 0
\* was just rejected as invalid.
C27_Witness ==
    /\ lastCall.result = ErrInvalidId
    /\ paused
    /\ commitmentIdCounter = 1
    /\ Commitment(1).isFrozen

\* C28 as stated: while a commitment's signerSigned is false, none of its
\* witness flags is set and its witnessSignedCount is 0.
C28_Original ==
    \A id \in Existing :
        ~Commitment(id).signerSigned =>
            /\ Commitment(id).witnessSignedCount = 0
            /\ \A a \in Addrs : ~hasWitnessSigned(id, a)

\* C28, amended: the initiator's signature comes first (it is there whenever
\* the signer or a witness has signed), and after it the signer and the
\* witnesses sign in any order: a listed witness who has not signed can sign
\* an unfrozen commitment whether or not the signer has signed.
C28_InitiatorFirstThenAnyOrder ==
    \A id \in Existing :
        /\ (\/ Commitment(id).signerSigned
            \/ Commitment(id).witnessSignedCount > 0
            \/ \E a \in Addrs : hasWitnessSigned(id, a))
              => Commitment(id).initiatorSigned
        /\ \A a \in Addrs :
              (_isWitness(id, a) /\ ~hasWitnessSigned(id, a) /\ ~Commitment(id).isFrozen)
                => signAsWitness(a, id).result = OK

\* The only witness of a commitment has signed before its signer.
C28_Witness ==
    /\ lastCall = [op |-> "signAsWitness", result |-> OK]
    /\ \E id \in Existing :
        /\ Len(Commitment(id).witnesses) = 1
        /\ Commitment(id).witnessSignedCount = 1
        /\ ~Commitment(id).signerSigned

\* p is the signer or a listed witness of commitment id and has not signed.
Pending(id, p) ==
    IF p = Commitment(id).signer THEN ~Commitment(id).signerSigned
    ELSE _isWitness(id, p) /\ ~hasWitnessSigned(id, p)

\* p's sign action on commitment id: its outcome, and the transaction.
sign(p, id) ==
    IF p = Commitment(id).signer THEN signAsSigner(p, id) ELSE signAsWitness(p, id)

Sign(p, id) ==
    IF p = Commitment(id).signer THEN SignAsSigner(p, id) ELSE SignAsWitness(p, id)

\* The signature state of commitment id that outcome tx leaves: signerSigned,
\* the witness flags, witnessSignedCount, isCompleted, and the number of
\* CommitmentCompleted notifications so far.
SignState(tx, id) ==
    <<tx.commitments[id].signerSigned,
      WitnessSignedOf(tx.witnessSigned, id),
      tx.commitments[id].witnessSignedCount,
      tx.commitments[id].isCompleted,
      completedCount[id] + CountOf("CommitmentCompleted", id, tx.logs)>>

SignStateValues ==
    <<BOOLEAN, [Addrs -> BOOLEAN], 0..MaxWitnesses, BOOLEAN, 0..MaxWitnesses>>

\* Component k of the signature state is v after first's sign action
\* followed by second's.
ThenYields(first, second, id, k, v) ==
    ENABLED (Sign(first, id) /\ SignState(sign(second, id), id)'[k] = v)

\* C29: for an unfrozen commitment and two different participants p and q
\* (the signer or listed witnesses) who have not signed, p's sign action
\* followed by q's leaves the same signerSigned, witness flags,
\* witnessSignedCount and isCompleted, and the same number of
\* CommitmentCompleted notifications, as q's followed by p's.
C29_SigningCommutes ==
    \A id \in Existing, p \in Addrs, q \in Addrs :
        (p # q /\ Pending(id, p) /\ Pending(id, q) /\ ~Commitment(id).isFrozen) =>
            \A k \in DOMAIN SignStateValues :
                \A v \in SignStateValues[k] :
                    ThenYields(p, q, id, k, v) <=> ThenYields(q, p, id, k, v)

\* The signer and the only witness have signed, witness first, and that
\* completed the commitment.
C29_Witness ==
    /\ lastCall = [op |-> "signAsSigner", result |-> OK]
    /\ \E id \in Existing :
        /\ Len(Commitment(id).witnesses) = 1
        /\ Commitment(id).witnessSignedCount = 1
        /\ Commitment(id).isCompleted
        /\ completedCount[id] = 1

\* If from some point on commitment id exists, is not frozen and the
\* registry is not paused, the commitment is eventually completed.
EventuallyCompleted(id) ==
    <>[](id \in Existing /\ ~Commitment(id).isFrozen /\ ~paused)
        => <>Commitment(id).isCompleted

\* Some participant of commitment id who has not signed can sign now.
SomeoneCanSign(id) ==
    \E p \in Addrs : Pending(id, p) /\ sign(p, id).result = OK

\* C30 as stated: under weak fairness of the participants' sign actions a
\* commitment that stays unfrozen on an unpaused registry is eventually
\* completed, and in every reachable state an unfrozen, uncompleted
\* commitment has a participant whose sign action is enabled.
C30_Original ==
    /\ \A id \in 1..MaxCommitments : EventuallyCompleted(id)
    /\ [](\A id \in Existing :
            (~Commitment(id).isCompleted /\ ~Commitment(id).isFrozen)
                => SomeoneCanSign(id))

\* C30, amended: under weak fairness of the participants' sign actions a
\* commitment that stays unfrozen on an unpaused registry is eventually
\* completed, and in every reachable state of an unpaused registry an
\* unfrozen, uncompleted commitment has a participant whose sign action is
\* enabled.
C30_CompletionIsLive ==
    /\ \A id \in 1..MaxCommitments : EventuallyCompleted(id)
    /\ [](\A id \in Existing :
            (~Commitment(id).isCompleted /\ ~Commitment(id).isFrozen /\ ~paused)
                => SomeoneCanSign(id))

\* The signer's signature, the last one missing, completed a commitment
\* with two witnesses.
C30_Witness ==
    /\ lastCall = [op |-> "signAsSigner", result |-> OK]
    /\ ~paused
    /\ \E id \in Existing :
        /\ Len(Commitment(id).witnesses) = 2
        /\ Commitment(id).isCompleted
        /\ ~Commitment(id).isFrozen

\* The record and the witness flags of commitment j are as before the step.
Untouched(j) ==
    /\ Commitment(j)' = Commitment(j)
    /\ WitnessSignedOf(witnessSigned, j)' = WitnessSignedOf(witnessSigned, j)

\* The step is a successful call of one of the per-commitment handlers on id.
ActsOn(id) ==
    /\ lastCall'.result = OK
    /\ \E sender \in Addrs :
        \/ SignAsSigner(sender, id)
        \/ SignAsWitness(sender, id)
        \/ FreezeCommitment(sender, id)
        \/ UnfreezeCommitment(sender, id)
        \/ VerifyCommitment(sender, id)

\* The step is a successful createCommitment.
Creates ==
    /\ lastCall' = [op |-> "createCommitment", result |-> OK]
    /\ commitmentIdCounter' = commitmentIdCounter + 1

\* C31: commitments are isolated. A successful signAsSigner, signAsWitness,
\* freezeCommitment, unfreezeCommitment or verifyCommitment on commitment i
\* leaves every field and every witness flag of every other commitment
\* unchanged, and a successful createCommitment changes no existing one.
C31_CommitmentsIsolated ==
    [][/\ \A i \in MultiIdArgs :
            ActsOn(i) => \A j \in Ids \ {i} : Untouched(j)
       /\ Creates => \A j \in Existing : Untouched(j)]_vars

\* Two commitments share a witness, who has signed the second one only.
C31_Witness ==
    /\ lastCall = [op |-> "signAsWitness", result |-> OK]
    /\ commitmentIdCounter = 2
    /\ Commitment(1).witnesses = Commitment(2).witnesses
    /\ Commitment(1).witnessSignedCount = 0
    /\ Commitment(2).witnessSignedCount = 1
    /\ \E a \in Addrs : /\ hasWitnessSigned(2, a)
                        /\ ~hasWitnessSigned(1, a)

\* C32: freeze and pause gate signatures only. Whatever the freeze flag of
\* the commitment and the pause flag of the registry are, verifyCommitment
\* succeeds on a completed commitment that is not yet verified, and
\* freezeCommitment (on a commitment not frozen) and unfreezeCommitment (on a
\* frozen one) succeed also on a completed or verified commitment and while
\* the registry is paused.
C32_FreezeAndPauseGateSignaturesOnly ==
    \A sender \in Addrs, id \in Existing :
        LET c == Commitment(id)
        IN  /\ (c.isCompleted /\ ~c.isVerified)
                    => verifyCommitment(sender, id).result = OK
            /\ ~c.isFrozen => freezeCommitment(sender, id).result = OK
            /\ c.isFrozen => unfreezeCommitment(sender, id).result = OK

\* A frozen commitment has just been verified while the registry is paused.
C32_Witness ==
    /\ lastCall = [op |-> "verifyCommitment", result |-> OK]
    /\ paused
    /\ \E id \in Existing : /\ Commitment(id).isFrozen
                            /\ Commitment(id).isCompleted
                            /\ Commitment(id).isVerified

RoleLabels == {"initiator", "signer", "witness", "none"}

\* Address a appears in the witness list of commitment c.
Listed(c, a) == \E k \in 1..Len(c.witnesses) : c.witnesses[k] = a

\* C33: for an existing commitment, getRole(id, a) returns "initiator" if a
\* is its initiator, otherwise "signer" if a is its signer, otherwise
\* "witness" if a is in its witness list, otherwise "none"; the result is one
\* of these four labels, and an address that is both the initiator and a listed
\* witness is reported as "initiator".
C33_GetRoleLabels ==
    \A id \in Existing, a \in AddrArgs :
        LET c == Commitment(id)
            r == getRole(id, a)
        IN  /\ r.result = OK
            /\ r.returned \in RoleLabels
            /\ a = c.initiator => r.returned = "initiator"
            /\ (a # c.initiator /\ a = c.signer) => r.returned = "signer"
            /\ (a # c.initiator /\ a # c.signer /\ Listed(c, a))
                    => r.returned = "witness"
            /\ (a # c.initiator /\ a # c.signer /\ ~Listed(c, a))
                    => r.returned = "none"

\* The initiator of a commitment is also one of its two listed witnesses,
\* and the four labels all occur among the answers of getRole.
C33_Witness ==
    \E id \in Existing :
        /\ Listed(Commitment(id), Commitment(id).initiator)
        /\ Len(Commitment(id).witnesses) = 2
        /\ getRole(id, Commitment(id).initiator).returned = "initiator"
        /\ {getRole(id, a).returned : a \in AddrArgs} = RoleLabels

\* C34: every registry entry point the client binding invokes is implemented
\* by the registry with the result fields the client reads: with a provider
\* set, the binding's getCommitment returns a non-null display record for
\* every existing commitment id and its commitmentExists returns true.
C34_ClientReadsExistingCommitments ==
    \A id \in Existing :
        provider # NoProvider =>
            /\ useContract_getCommitment(id) # null
            /\ useContract_commitmentExists(id) = TRUE

\* The call under way has returned its success value.
Succeeded(c) ==
    IF c.fn = "createCommitment" THEN c.returned # NoText ELSE c.returned = true

\* A call of the binding returns in this step: at once (the wallet is not
\* connected), from its catch block, or after tx.wait().
Returns ==
    /\ call'.pc = "done"
    /\ \/ call.pc \notin {"idle", "done"}
       \/ \E args \in CallArgs :
                Call(args[1], args[2], args[3], args[4], args[5])

\* C35: the client reports no mutation as successful before its
\* confirmation.  When createCommitment returns a non-null value, or
\* signAsSigner or signAsWitness returns true, the transaction has been mined
\* successfully and its wait() has resolved; when the wallet is not connected,
\* the submission is rejected or the confirmation fails, the call returns
\* null / false with txState.error set; and whenever a call returns,
\* txState.isPending is false.
C35_SuccessOnlyAfterConfirmation ==
    [][Returns =>
        /\ ~txState'.isPending
        /\ Succeeded(call') =>
                /\ call.pc = "wait"
                /\ call.receipt.status = OK
                /\ txState'.error = NoText
        /\ call.pc # "wait" \/ call.receipt.status # OK =>
                /\ call'.returned = failure(call'.fn)
                /\ txState'.error # NoText]_vars

\* A signAsSigner call of the client has returned true and the registry
\* holds the signer's signature.
C35_Witness ==
    /\ call.pc = "done"
    /\ call.fn = "signAsSigner"
    /\ call.returned = true
    /\ call.receipt.status = OK
    /\ Commitment(call.id).signerSigned
    /\ txState = [isPending |-> FALSE, hash |-> TxHash, error |-> NoText]

\* C37: in the wallet provider, under every interleaving of connect,
\* disconnect, the accountsChanged callback and the completion of
\* updateAccountInfo, isConnected = true implies that provider and address
\* are both non-null; a disconnect issued while updateAccountInfo is in
\* flight is not undone by its late completion.
C37_ConnectedHasProviderAndAddress ==
    state.isConnected => (provider # NoProvider /\ state.address # NoAddress)

====
